---- MODULE Spec2Model ----
(***************************************************************************)
(* Turn routing of the IRIS Symphony OSHA group chat.                      *)
(*                                                                         *)
(* The module models the two CustomGroupChatManager classes of the         *)
(* repository (backend/src/semantic_kernel_orchestrator.py and             *)
(* backend/src/sk_orchestration_scripts/groupchat_client.py), the turn     *)
(* loop that GroupChatOrchestration runs through them, and the retry loops *)
(* around it: process_message of the first file, main of the second.       *)
(*                                                                         *)
(*   Spec            each method of the managers applied to an input log   *)
(*   SpecLoop        the turn loop of one exchange                         *)
(*   SpecWellFormed  the turn loop with participants that answer in shape  *)
(*   SpecReplay      one manager evaluating the logs of two exchanges      *)
(*   SpecHarness     one call of process_message, or of main's retry loop  *)
(*   SpecConcurrent  two calls of process_message on the one orchestrator  *)
(*   SpecRouter      parse_response applied to a response of the CLU       *)
(*                   runtime                                               *)
(*   SpecReturns     one call of process_message under fairness            *)
(*   SpecHooks       RecordabilityQuestion and IndustryRiskProfile of      *)
(*                   clu_hooks.py applied to an entity list                *)
(*                                                                         *)
(* A message content is a string that the routing code hands to            *)
(* json.loads.  It is modelled by what json.loads and the subscripts the   *)
(* code applies make of it: whether it parses, whether the parsed value    *)
(* is a dict, and the keys the code reads.  Confidence scores are scaled   *)
(* by 100 (0.8 is 80).  Python's None is the string "None".                *)
(***************************************************************************)
EXTENDS Integers, Sequences, FiniteSets, TLC

\* The manager's inputs and the state of one exchange.
VARIABLES chat_history, participant_descriptions, decision, phase, requested

\* Several exchanges evaluated by the one manager of the orchestrator.
VARIABLES exchanges, pinned, observed

\* Concurrent calls of process_message, one per exchange, on the one orchestrator.
VARIABLES calls

\* parse_response of the CLU router: its configuration, its argument and its result.
VARIABLES clu_threshold, clu_response, clu_result

\* A function hook of clu_hooks.py: the ROUTER_TYPE setting, its argument, the string
\* it returned and the HTTP requests it made.
VARIABLES router_type, entities, hook_result, http_calls

\* Locals and position of one call of process_message, or of main's retry loop.
VARIABLES pc, retry_count, last_exception, need_more_info, pending, returned,
          runtime, attempts, pauses, events

managerVars == <<chat_history, participant_descriptions, decision, phase, requested>>

replayVars == <<exchanges, pinned, observed>>

concurrentVars == <<calls>>

routerVars == <<clu_threshold, clu_response, clu_result>>

hookVars == <<router_type, entities, hook_result, http_calls>>

harnessVars == <<pc, retry_count, last_exception, need_more_info, pending, returned,
                 runtime, attempts, pauses, events>>

vars == <<managerVars, replayVars, harnessVars, concurrentVars, routerVars, hookVars>>

(***************************************************************************)
(* Bounds of the model.                                                    *)
(***************************************************************************)
\* Most turns between the task and the latest turn of an input log.
MaxPrefix == 3

(***************************************************************************)
(* Configuration read at import time.                                      *)
(***************************************************************************)
confidence_threshold == 70

cqa_confidence == 80

(***************************************************************************)
(* Participants.                                                           *)
(***************************************************************************)
SageAgents == {"SciencesAgent", "GovernanceAgent", "AnalyticsAgent", "ExperienceAgent"}

\* The members handed to GroupChatOrchestration, by name.
created_agents == {"TranslationAgent", "TriageAgent", "Lumi"} \cup SageAgents

\* The list route_lumi_message validates target_agent against.
valid_agents == {"SciencesAgent", "GovernanceAgent", "AnalyticsAgent", "ExperienceAgent"}

(***************************************************************************)
(* StringResult, and a call that returns no StringResult at all (a Python  *)
(* function that falls off its end returns the bare None).                 *)
(***************************************************************************)
StringResult(result, reason) == [decided |-> TRUE, result |-> result, reason |-> reason]

NoResult == [decided |-> FALSE, result |-> "None", reason |-> "None"]

\* The name handed back without a look at the registry.
LookupUnregistered(descriptions, name) == name

\* next((agent for agent in participant_descriptions.keys() if agent == name), None)
Lookup(descriptions, name) == IF name \in descriptions THEN name ELSE "None"

(***************************************************************************)
(* Message contents.                                                       *)
(*   json      "invalid": json.loads raises; "scalar": it returns a value  *)
(*             that is no dict (a list, a string, a number, null);         *)
(*             "object": it returns a dict with the keys below.            *)
(*   response  "absent" | "string" | "object": parsed['response'].         *)
(*   answers   confidenceScore of response.answers[i], in order (empty     *)
(*             when the key is missing or the list is empty: both raise).  *)
(*   intents   confidenceScore of                                          *)
(*             response.result.conversations[0].intents[i], in order.      *)
(*   iri_domains "absent" | "list" (of strings) | "null".                  *)
(***************************************************************************)
Obj == [json |-> "object", type |-> "absent", response |-> "absent",
        answers |-> <<>>, intents |-> <<>>, target_agent |-> "absent",
        iri_domains |-> "absent", need_more_info |-> "absent",
        response_need_more_info |-> "absent", final_answer |-> "absent"]

NotJson == [Obj EXCEPT !.json = "invalid"]

NotDict == [Obj EXCEPT !.json = "scalar"]

\* json.loads(content) raises.
LoadsRaises(content) == content.json = "invalid"

\* parsed.get(...) raises AttributeError: the parsed value is no dict.
GetRaises(content) == content.json # "object"

\* parsed['response'] raises: TypeError on a non-dict, KeyError on a dict without the key.
ResponseRaises(content) == content.json # "object" \/ content.response = "absent"

(***************************************************************************)
(* Routing functions of semantic_kernel_orchestrator.py.                   *)
(***************************************************************************)
route_user_message(descriptions) ==
    StringResult(Lookup(descriptions, "TranslationAgent"),
                 "Routing to TranslationAgent for initial translation.")

route_translation_message(last_message, descriptions) ==
    IF LoadsRaises(last_message.content) \/ ResponseRaises(last_message.content)
    THEN StringResult("None", "Error routing to TriageAgent")
    ELSE StringResult(Lookup(descriptions, "TriageAgent"),
                      "Routing to TriageAgent for intent classification.")

\* parsed["response"]["answers"][0]["confidenceScore"] raises.
TopAnswerRaises(content) == content.response # "object" \/ Len(content.answers) = 0

\* parsed["response"]["result"]["conversations"][0]["intents"][0][...] raises.
TopIntentRaises(content) == content.response # "object" \/ Len(content.intents) = 0

\* route_triage_message with the FAQ test written > instead of >=.
route_triage_message_strict(last_message, descriptions) ==
    LET parsed == last_message.content
        failed == StringResult("None", "Error processing TriageAgent message.")
    IN  IF LoadsRaises(parsed) \/ GetRaises(parsed) THEN failed
        ELSE IF parsed.type = "cqa_result"
        THEN IF TopAnswerRaises(parsed) THEN failed
             ELSE IF parsed.answers[1] > cqa_confidence
             THEN StringResult(Lookup(descriptions, "TranslationAgent"),
                      "Routing to TranslationAgent for final translation of CQA answer.")
             ELSE StringResult(Lookup(descriptions, "Lumi"),
                      "Low CQA confidence, routing to Lumi for deeper analysis.")
        ELSE IF parsed.type = "clu_result"
        THEN IF TopIntentRaises(parsed) THEN failed
             ELSE IF parsed.intents[1] >= confidence_threshold
             THEN StringResult(Lookup(descriptions, "Lumi"),
                      "Routing to Lumi for IRI domain agent selection.")
             ELSE StringResult(Lookup(descriptions, "Lumi"),
                      "Low CLU confidence, Lumi will request clarification.")
        ELSE NoResult

\* route_triage_message with the low-confidence intent branch naming no next speaker.
route_triage_message_low_dropped(last_message, descriptions) ==
    LET parsed == last_message.content
        failed == StringResult("None", "Error processing TriageAgent message.")
    IN  IF LoadsRaises(parsed) \/ GetRaises(parsed) THEN failed
        ELSE IF parsed.type = "cqa_result"
        THEN IF TopAnswerRaises(parsed) THEN failed
             ELSE IF parsed.answers[1] >= cqa_confidence
             THEN StringResult(Lookup(descriptions, "TranslationAgent"),
                      "Routing to TranslationAgent for final translation of CQA answer.")
             ELSE StringResult(Lookup(descriptions, "Lumi"),
                      "Low CQA confidence, routing to Lumi for deeper analysis.")
        ELSE IF parsed.type = "clu_result"
        THEN IF TopIntentRaises(parsed) THEN failed
             ELSE IF parsed.intents[1] >= confidence_threshold
             THEN StringResult(Lookup(descriptions, "Lumi"),
                      "Routing to Lumi for IRI domain agent selection.")
             ELSE StringResult("None", "Low CLU confidence.")
        ELSE NoResult

route_triage_message(last_message, descriptions) ==
    LET parsed == last_message.content
        failed == StringResult("None", "Error processing TriageAgent message.")
    IN  IF LoadsRaises(parsed) \/ GetRaises(parsed) THEN failed
        ELSE IF parsed.type = "cqa_result"
        THEN IF TopAnswerRaises(parsed) THEN failed
             ELSE IF parsed.answers[1] >= cqa_confidence
             THEN StringResult(Lookup(descriptions, "TranslationAgent"),
                      "Routing to TranslationAgent for final translation of CQA answer.")
             ELSE StringResult(Lookup(descriptions, "Lumi"),
                      "Low CQA confidence, routing to Lumi for deeper analysis.")
        ELSE IF parsed.type = "clu_result"
        THEN IF TopIntentRaises(parsed) THEN failed
             ELSE IF parsed.intents[1] >= confidence_threshold
             THEN StringResult(Lookup(descriptions, "Lumi"),
                      "Routing to Lumi for IRI domain agent selection.")
             ELSE StringResult(Lookup(descriptions, "Lumi"),
                      "Low CLU confidence, Lumi will request clarification.")
        ELSE NoResult

\* ', '.join(iri_domains) raises: iri_domains is null (or holds a non-string).
JoinRaises(content) == content.iri_domains = "null"

\* route_lumi_message without the default to GovernanceAgent.
route_lumi_message_no_default(last_message, descriptions) ==
    LET parsed == last_message.content
        named == IF GetRaises(parsed) THEN "None" ELSE parsed.target_agent
    IN  IF LoadsRaises(parsed) \/ GetRaises(parsed) \/ JoinRaises(parsed)
        THEN StringResult("None", "Error processing Lumi message.")
        ELSE StringResult(Lookup(descriptions, named), "Routing to target agent.")

\* route_lumi_message returning the name Lumi gave, not looked up among the members.
route_lumi_message_unregistered(last_message, descriptions) ==
    LET parsed == last_message.content
        named == IF GetRaises(parsed) THEN "None" ELSE parsed.target_agent
    IN  IF LoadsRaises(parsed) \/ GetRaises(parsed) \/ JoinRaises(parsed)
        THEN StringResult("None", "Error processing Lumi message.")
        ELSE StringResult(named, "Routing to target agent.")

route_lumi_message(last_message, descriptions) ==
    LET parsed == last_message.content
        named == IF GetRaises(parsed) THEN "None" ELSE parsed.target_agent
        target_agent == IF named \notin valid_agents THEN "GovernanceAgent" ELSE named
    IN  IF LoadsRaises(parsed) \/ GetRaises(parsed) \/ JoinRaises(parsed)
        THEN StringResult("None", "Error processing Lumi message.")
        ELSE StringResult(Lookup(descriptions, target_agent), "Routing to target agent.")

\* route_sage_agent_message handing the response back to the Dispatcher.
route_sage_agent_message_to_dispatcher(last_message, descriptions) ==
    IF LoadsRaises(last_message.content) \/ GetRaises(last_message.content)
    THEN StringResult("None", "Error processing SAGE agent message.")
    ELSE StringResult(Lookup(descriptions, "Lumi"), "Routing to Lumi.")

route_sage_agent_message(last_message, descriptions) ==
    IF LoadsRaises(last_message.content) \/ GetRaises(last_message.content)
    THEN StringResult("None", "Error processing SAGE agent message.")
    ELSE StringResult(Lookup(descriptions, "TranslationAgent"),
                      "Routing to TranslationAgent for final translation.")

(***************************************************************************)
(* CustomGroupChatManager of semantic_kernel_orchestrator.py.              *)
(***************************************************************************)
\* chat_history[-1]
Last(history) == history[Len(history)]

\* The content of the message returned; "No messages in chat history." is no JSON.
filter_results(history) ==
    IF Len(history) = 0 THEN NotJson ELSE Last(history).content

should_request_user_input(history) ==
    /\ Len(history) > 0
    /\ ~LoadsRaises(Last(history).content)
    /\ ~GetRaises(Last(history).content)
    /\ Last(history).content.need_more_info = "True"

\* select_next_agent with its length test counting, in a field of the shared manager,
\* the turns of every exchange it serves.
select_next_agent_shared_count(history, descriptions) ==
    IF Len(history) = 0 \/ Last(history).role = "user"
    THEN route_user_message(descriptions)
    ELSE IF Last(history).name = "TranslationAgent"
    THEN IF Len(exchanges["exchange_a"]) + Len(exchanges["exchange_b"]) > 3
         THEN StringResult("None", "Final translation complete.")
         ELSE route_translation_message(Last(history), descriptions)
    ELSE IF Last(history).name = "TriageAgent"
    THEN route_triage_message(Last(history), descriptions)
    ELSE IF Last(history).name = "Lumi"
    THEN route_lumi_message(Last(history), descriptions)
    ELSE IF Last(history).name \in SageAgents
    THEN route_sage_agent_message(Last(history), descriptions)
    ELSE StringResult("None", "No valid routing logic found.")

select_next_agent(history, descriptions) ==
    IF Len(history) = 0 \/ Last(history).role = "user"
    THEN route_user_message(descriptions)
    ELSE IF Last(history).name = "TranslationAgent"
    THEN IF Len(history) > 3
         THEN StringResult("None", "Final translation complete.")
         ELSE route_translation_message(Last(history), descriptions)
    ELSE IF Last(history).name = "TriageAgent"
    THEN route_triage_message(Last(history), descriptions)
    ELSE IF Last(history).name = "Lumi"
    THEN route_lumi_message(Last(history), descriptions)
    ELSE IF Last(history).name \in SageAgents
    THEN route_sage_agent_message(Last(history), descriptions)
    ELSE StringResult("None", "No valid routing logic found.")

\* should_terminate without its length test.
should_terminate_any_length(history) ==
    IF Len(history) = 0 THEN FALSE
    ELSE Last(history).name = "TranslationAgent"

\* should_terminate with the length test written >= 3 instead of > 3.
should_terminate_from_3(history) ==
    IF Len(history) = 0 THEN FALSE
    ELSE Last(history).name = "TranslationAgent" /\ Len(history) >= 3

should_terminate(history) ==
    IF Len(history) = 0 THEN FALSE
    ELSE Last(history).name = "TranslationAgent" /\ Len(history) > 3

(***************************************************************************)
(* CustomGroupChatManager of sk_orchestration_scripts/groupchat_client.py. *)
(***************************************************************************)
gc_no_match == StringResult("None", "No routing logic matched.")

gc_should_request_user_input(history) == FALSE

gc_select_next_agent(history, descriptions) ==
    IF Len(history) = 0 \/ Last(history).role = "user"
    THEN IF Len(history) = 1
         THEN StringResult(Lookup(descriptions, "TranslationAgent"), "Initial translation.")
         ELSE gc_no_match
    ELSE LET parsed == Last(history).content IN
    IF Last(history).name = "TranslationAgent"
    THEN IF LoadsRaises(parsed) \/ GetRaises(parsed)
         THEN StringResult("None", "Error")
         ELSE StringResult(Lookup(descriptions, "TriageAgent"), "Routing to TriageAgent.")
    ELSE IF Last(history).name = "TriageAgent"
    THEN IF LoadsRaises(parsed) \/ GetRaises(parsed)
         THEN StringResult("None", "Error processing triage.")
         ELSE IF parsed.type = "cqa_result"
         THEN StringResult("None", "CQA result received.")
         ELSE IF parsed.type = "clu_result"
         THEN IF TopIntentRaises(parsed)
              THEN StringResult("None", "Error processing triage.")
              ELSE StringResult(Lookup(descriptions, "Lumi"),
                                "Routing to Lumi for SAGE agent selection.")
         ELSE gc_no_match
    ELSE IF Last(history).name = "Lumi"
    THEN IF LoadsRaises(parsed) \/ GetRaises(parsed)
         THEN StringResult("None", "Error")
         ELSE StringResult(Lookup(descriptions, parsed.target_agent), "Routing to target.")
    ELSE IF Last(history).name \in SageAgents
    THEN StringResult(Lookup(descriptions, "TranslationAgent"), "Final translation.")
    ELSE gc_no_match

gc_should_terminate(history) ==
    IF Len(history) = 0 THEN FALSE
    ELSE Last(history).name = "TranslationAgent" /\ Len(history) > 3

(***************************************************************************)
(* Turns.  A user turn has role "user" and no name; a participant's turn   *)
(* has role "assistant" and the participant's name.  The contents are the  *)
(* shapes a participant can answer with: its documented payloads and the   *)
(* malformed ones the routing code guards against.                         *)
(***************************************************************************)
Turn(role, name, content) == [role |-> role, name |-> name, content |-> content]

\* The task: {"query": ..., "to": "english"}.
UserTurn == Turn("user", "None", Obj)

\* {origin_language, response: {current_question}, target_language}
TranslatorInbound == [Obj EXCEPT !.response = "object"]

\* {origin_language, source_language, response: {final_answer, need_more_info}}
TranslatorOutbound(flag) ==
    [Obj EXCEPT !.response = "object", !.final_answer = "text",
                !.response_need_more_info = flag]

\* An outbound payload that repeats the flag of the responder's payload beside response.
TranslatorOutboundFlagged == [TranslatorOutbound("True") EXCEPT !.need_more_info = "True"]

\* "absent": an outbound payload whose response has final_answer and no need_more_info.
TranslatorContents ==
    {TranslatorInbound, TranslatorOutbound("False"), TranslatorOutbound("True"),
     TranslatorOutbound("absent"), TranslatorOutboundFlagged, Obj, NotDict, NotJson}

\* {type: "cqa_result", response: {answers: [{confidenceScore}, ...]}, terminated}
CqaResult(scores) == [Obj EXCEPT !.type = "cqa_result", !.response = "object", !.answers = scores]

\* {type: "clu_result", response: {result: {conversations: [{intents: [...]}]}}, terminated}
CluResult(scores) == [Obj EXCEPT !.type = "clu_result", !.response = "object", !.intents = scores]

Below(threshold) == threshold - 1

Above(threshold) == threshold + 1

TriageContents ==
    {CqaResult(<<cqa_confidence>>), CqaResult(<<Above(cqa_confidence)>>),
     CqaResult(<<Below(cqa_confidence)>>),
     CqaResult(<<Above(cqa_confidence), Below(cqa_confidence)>>),
     CqaResult(<<Below(cqa_confidence), Above(cqa_confidence)>>),
     CqaResult(<<>>),
     CluResult(<<Above(confidence_threshold)>>), CluResult(<<Below(confidence_threshold)>>),
     CluResult(<<>>),
     [Obj EXCEPT !.type = "other", !.response = "object"],
     NotDict, NotJson}

\* {target_agent, intent, entities, iri_domains, terminated}
LumiPayload(target, domains) == [Obj EXCEPT !.target_agent = target, !.iri_domains = domains]

LumiContents ==
    {LumiPayload(t, "list") : t \in SageAgents \cup {"UnknownAgent", "absent"}}
    \cup {LumiPayload(t, d) : t \in {"SciencesAgent", "UnknownAgent"}, d \in {"absent", "null"}}
    \cup {NotDict, NotJson}

\* {response: string, terminated, need_more_info: "True" | "False", ...}
SagePayload(flag) == [Obj EXCEPT !.response = "string", !.need_more_info = flag]

SageContents == {SagePayload("False"), SagePayload("True"), Obj, NotDict, NotJson}

ContentsOf(name) ==
    IF name = "TranslationAgent" THEN TranslatorContents
    ELSE IF name = "TriageAgent" THEN TriageContents
    ELSE IF name = "Lumi" THEN LumiContents
    ELSE IF name \in SageAgents THEN SageContents
    ELSE {NotJson}

\* Every turn a participant, or a name the routing does not know, can append.
AgentTurns ==
    UNION {{Turn("assistant", n, c) : c \in ContentsOf(n)} :
              n \in {"TranslationAgent", "TriageAgent", "Lumi", "GovernanceAgent",
                     "SciencesAgent", "OtherAgent"}}
    \cup {Turn("assistant", n, SagePayload("False")) : n \in SageAgents}

(***************************************************************************)
(* Input logs of the manager's methods.  The orchestration puts the task,  *)
(* a user turn, first, so a log is empty or begins with a user turn.  The  *)
(* methods read the latest turn and the length of the log only, so the     *)
(* latest turn ranges over every turn and the turns between the task and   *)
(* it over one well-formed turn of each kind of speaker.                   *)
(***************************************************************************)
EarlierTurns ==
    {UserTurn,
     Turn("assistant", "TranslationAgent", TranslatorInbound),
     Turn("assistant", "TriageAgent", CqaResult(<<Above(cqa_confidence)>>)),
     Turn("assistant", "TriageAgent", CluResult(<<Above(confidence_threshold)>>)),
     Turn("assistant", "Lumi", LumiPayload("GovernanceAgent", "list")),
     Turn("assistant", "GovernanceAgent", SagePayload("False"))}

Prefixes == UNION {[1..n -> EarlierTurns] : n \in 0..MaxPrefix}

\* A user turn whose content is free text, not the JSON task.
FreeTextUserTurn == Turn("user", "None", NotJson)

Logs ==
    {<<>>, <<UserTurn>>}
    \cup {<<UserTurn>> \o p \o <<t>> :
              p \in Prefixes, t \in AgentTurns \cup {UserTurn, FreeTextUserTurn}}

\* The registry built at startup, and registries that miss one responder.
Registries ==
    {created_agents, created_agents \ {"GovernanceAgent"}, created_agents \ {"SciencesAgent"}}

(***************************************************************************)
(* Values of the variables a specification does not use.                   *)
(***************************************************************************)
\* Two exchanges served by the one orchestration (and its one manager).
Exchanges == {"exchange_a", "exchange_b"}

Evaluation(history, next) == [made |-> TRUE, history |-> history, next |-> next]

NoEvaluation == [made |-> FALSE, history |-> <<>>, next |-> NoResult]

ReplayIdle ==
    /\ exchanges = [e \in Exchanges |-> <<>>]
    /\ pinned = NoEvaluation
    /\ observed = NoEvaluation

\* Python's False, as opposed to the strings "True" and "False" of the payloads.
PyFalse == "bool False"

\* last_exception = None
NoException == [type |-> "None", message |-> "None", attempt |-> 0]

\* What the call has handed to its caller: nothing yet.
NotReturned ==
    [kind |-> "none", answer |-> "None", error |-> NoException, need_more_info |-> PyFalse]

HarnessIdle ==
    /\ pc = "idle"
    /\ retry_count = 0
    /\ last_exception = NoException
    /\ need_more_info = PyFalse
    /\ pending = "None"
    /\ returned = NotReturned
    /\ runtime = "None"
    /\ attempts = 0
    /\ pauses = 0
    /\ events = <<>>

\* The locals of a call of process_message that has not begun.
CallIdle ==
    [pc |-> "idle", retry_count |-> 0, last_exception |-> NoException, runtime |-> "None",
     attempts |-> 0, failures |-> 0, chat_history |-> <<>>, phase |-> "start",
     requested |-> "None"]

ConcurrentIdle == calls = [e \in Exchanges |-> CallIdle]

\* float(os.environ.get("CLU_CONFIDENCE_THRESHOLD", "0.7")), scaled by 100.
CLU_CONFIDENCE_THRESHOLD == 70

NoResponse == [topIntent |-> "None", intents |-> <<>>, entities |-> <<>>]

NoCluResult ==
    [kind |-> "none", error |-> "None", intent |-> "None", entities |-> <<>>,
     confidence |-> 0, api_response |-> NoResponse]

RouterIdle ==
    /\ clu_threshold = CLU_CONFIDENCE_THRESHOLD
    /\ clu_response = NoResponse
    /\ clu_result = NoCluResult

\* No hook called: no entities handed over, nothing returned, no request made.
HookIdle ==
    /\ router_type = "None"
    /\ entities = <<>>
    /\ hook_result = "None"
    /\ http_calls = <<>>

(***************************************************************************)
(* Calls of the manager's methods on an input log: one call per input.     *)
(* decision holds the value the call returned.                             *)
(***************************************************************************)
Returned(call, bool, next, message) ==
    [call |-> call, bool |-> bool, next |-> next, message |-> message]

NoCall == Returned("none", FALSE, NoResult, NotJson)

Init ==
    /\ chat_history \in Logs
    /\ participant_descriptions \in Registries
    /\ decision = NoCall
    /\ phase = "idle"
    /\ requested = "None"
    /\ ReplayIdle
    /\ HookIdle
    /\ ConcurrentIdle
    /\ RouterIdle
    /\ HarnessIdle

CallFilterResults ==
    /\ phase = "idle"
    /\ decision = NoCall
    /\ decision' = Returned("filter_results", FALSE, NoResult, filter_results(chat_history))
    /\ UNCHANGED <<chat_history, participant_descriptions, phase, requested>>
    /\ UNCHANGED <<replayVars, hookVars, concurrentVars, routerVars, harnessVars>>

CallShouldRequestUserInput ==
    /\ phase = "idle"
    /\ decision = NoCall
    /\ decision' = Returned("should_request_user_input",
                            should_request_user_input(chat_history), NoResult, NotJson)
    /\ UNCHANGED <<chat_history, participant_descriptions, phase, requested>>
    /\ UNCHANGED <<replayVars, hookVars, concurrentVars, routerVars, harnessVars>>

CallSelectNextAgent ==
    /\ phase = "idle"
    /\ decision = NoCall
    /\ decision' = Returned("select_next_agent", FALSE,
                            select_next_agent(chat_history, participant_descriptions), NotJson)
    /\ UNCHANGED <<chat_history, participant_descriptions, phase, requested>>
    /\ UNCHANGED <<replayVars, hookVars, concurrentVars, routerVars, harnessVars>>

CallShouldTerminate ==
    /\ phase = "idle"
    /\ decision = NoCall
    /\ decision' = Returned("should_terminate", should_terminate(chat_history), NoResult, NotJson)
    /\ UNCHANGED <<chat_history, participant_descriptions, phase, requested>>
    /\ UNCHANGED <<replayVars, hookVars, concurrentVars, routerVars, harnessVars>>

CallClientShouldRequestUserInput ==
    /\ phase = "idle"
    /\ decision = NoCall
    /\ decision' = Returned("gc_should_request_user_input",
                            gc_should_request_user_input(chat_history), NoResult, NotJson)
    /\ UNCHANGED <<chat_history, participant_descriptions, phase, requested>>
    /\ UNCHANGED <<replayVars, hookVars, concurrentVars, routerVars, harnessVars>>

CallClientSelectNextAgent ==
    /\ phase = "idle"
    /\ decision = NoCall
    /\ decision' = Returned("gc_select_next_agent", FALSE,
                            gc_select_next_agent(chat_history, participant_descriptions), NotJson)
    /\ UNCHANGED <<chat_history, participant_descriptions, phase, requested>>
    /\ UNCHANGED <<replayVars, hookVars, concurrentVars, routerVars, harnessVars>>

CallClientShouldTerminate ==
    /\ phase = "idle"
    /\ decision = NoCall
    /\ decision' = Returned("gc_should_terminate", gc_should_terminate(chat_history),
                            NoResult, NotJson)
    /\ UNCHANGED <<chat_history, participant_descriptions, phase, requested>>
    /\ UNCHANGED <<replayVars, hookVars, concurrentVars, routerVars, harnessVars>>

Next ==
    \/ CallFilterResults
    \/ CallShouldRequestUserInput
    \/ CallSelectNextAgent
    \/ CallShouldTerminate
    \/ CallClientShouldRequestUserInput
    \/ CallClientSelectNextAgent
    \/ CallClientShouldTerminate

Spec == Init /\ [][Next]_vars

(***************************************************************************)
(* The turn loop of one exchange.  process_message hands the task, one     *)
(* string, to GroupChatOrchestration.invoke with a CustomGroupChatManager  *)
(* built without a human_response_function.  The orchestration appends the *)
(* task as the user turn; after it and after every participant's turn it   *)
(* asks the manager should_request_user_input (whose answer it acts on     *)
(* only through a human_response_function, and none is set), then          *)
(* should_terminate (true: filter_results is the result of the exchange),  *)
(* then select_next_agent, and requests a turn of the participant named.   *)
(*   phase "start"       the task has not been handed over                 *)
(*         "awaiting"    the participant `requested` has been asked        *)
(*         "terminated"  should_terminate returned true                    *)
(*         "stalled"     select_next_agent named no participant: no turn   *)
(*                       is requested and no result is produced            *)
(*         "crashed"     select_next_agent returned no StringResult        *)
(***************************************************************************)
Determine(history, descriptions) ==
    IF should_terminate(history) THEN [phase |-> "terminated", requested |-> "None"]
    ELSE LET next_agent == select_next_agent(history, descriptions) IN
         IF ~next_agent.decided THEN [phase |-> "crashed", requested |-> "None"]
         ELSE IF next_agent.result = "None" THEN [phase |-> "stalled", requested |-> "None"]
         ELSE [phase |-> "awaiting", requested |-> next_agent.result]

LoopInit ==
    /\ chat_history = <<>>
    /\ participant_descriptions = created_agents
    /\ decision = NoCall
    /\ phase = "start"
    /\ requested = "None"
    /\ ReplayIdle
    /\ HookIdle
    /\ ConcurrentIdle
    /\ RouterIdle
    /\ HarnessIdle

StartExchange ==
    /\ phase = "start"
    /\ chat_history' = <<UserTurn>>
    /\ phase' = Determine(chat_history', participant_descriptions).phase
    /\ requested' = Determine(chat_history', participant_descriptions).requested
    /\ UNCHANGED <<participant_descriptions, decision>>
    /\ UNCHANGED <<replayVars, hookVars, concurrentVars, routerVars, harnessVars>>

\* The member's answer written over the latest turn of the log.
AgentRespondsInPlace ==
    /\ phase = "awaiting"
    /\ \E content \in ContentsOf(requested) :
           chat_history' = [chat_history EXCEPT ![Len(chat_history)] =
                                Turn("assistant", requested, content)]
    /\ phase' = Determine(chat_history', participant_descriptions).phase
    /\ requested' = Determine(chat_history', participant_descriptions).requested
    /\ UNCHANGED <<participant_descriptions, decision>>
    /\ UNCHANGED <<replayVars, hookVars, concurrentVars, routerVars, harnessVars>>

AgentResponds ==
    /\ phase = "awaiting"
    /\ \E content \in ContentsOf(requested) :
           chat_history' = Append(chat_history, Turn("assistant", requested, content))
    /\ phase' = Determine(chat_history', participant_descriptions).phase
    /\ requested' = Determine(chat_history', participant_descriptions).requested
    /\ UNCHANGED <<participant_descriptions, decision>>
    /\ UNCHANGED <<replayVars, hookVars, concurrentVars, routerVars, harnessVars>>

LoopNext == StartExchange \/ AgentResponds

SpecLoop == LoopInit /\ [][LoopNext]_vars

(***************************************************************************)
(* The turn loop when every participant that is asked answers, and answers *)
(* with a payload of its documented shape, whatever the values in it.      *)
(***************************************************************************)
WellFormedContentsOf(name) ==
    IF name = "TranslationAgent"
    THEN {TranslatorInbound, TranslatorOutbound("False"), TranslatorOutbound("True")}
    ELSE IF name = "TriageAgent"
    THEN {c \in TriageContents :
             /\ c.json = "object"
             /\ \/ c.type = "cqa_result" /\ ~TopAnswerRaises(c)
                \/ c.type = "clu_result" /\ ~TopIntentRaises(c)}
    ELSE IF name = "Lumi"
    THEN {c \in LumiContents : c.json = "object" /\ c.iri_domains # "null"}
    ELSE IF name \in SageAgents
    THEN {SagePayload("False"), SagePayload("True")}
    ELSE {}

AgentRespondsWellFormed ==
    /\ phase = "awaiting"
    /\ \E content \in WellFormedContentsOf(requested) :
           chat_history' = Append(chat_history, Turn("assistant", requested, content))
    /\ phase' = Determine(chat_history', participant_descriptions).phase
    /\ requested' = Determine(chat_history', participant_descriptions).requested
    /\ UNCHANGED <<participant_descriptions, decision>>
    /\ UNCHANGED <<replayVars, hookVars, concurrentVars, routerVars, harnessVars>>

WellFormedNext == StartExchange \/ AgentRespondsWellFormed

\* The task is handed over, and a participant that is asked answers in time.
SpecWellFormed ==
    /\ LoopInit
    /\ [][WellFormedNext]_vars
    /\ WF_vars(StartExchange)
    /\ WF_vars(AgentRespondsWellFormed)

(***************************************************************************)
(* Replay.  The orchestrator builds one GroupChatOrchestration with one    *)
(* CustomGroupChatManager and uses it for every process_message call, so   *)
(* the same manager object evaluates the logs of several exchanges in any  *)
(* interleaving.  Each exchange has its own log, which grows by one turn   *)
(* at a time; the manager may be asked for the next speaker of either log  *)
(* at any point.  pinned keeps one earlier evaluation, observed the        *)
(* latest one.                                                             *)
(***************************************************************************)
MaxReplayLen == MaxPrefix + 1

ReplayTurns ==
    {Turn("assistant", "TranslationAgent", TranslatorInbound),
     Turn("assistant", "GovernanceAgent", SagePayload("False"))}

ReplayInit ==
    /\ chat_history = <<>>
    /\ participant_descriptions = created_agents
    /\ decision = NoCall
    /\ phase = "replay"
    /\ requested = "None"
    /\ ReplayIdle
    /\ HookIdle
    /\ ConcurrentIdle
    /\ RouterIdle
    /\ HarnessIdle

\* A turn is appended to the log of one exchange: the task first.
ReplayAppend ==
    /\ phase = "replay"
    /\ \E e \in Exchanges :
          /\ Len(exchanges[e]) < MaxReplayLen
          /\ \E turn \in IF Len(exchanges[e]) = 0 THEN {UserTurn} ELSE ReplayTurns :
                 exchanges' = [exchanges EXCEPT ![e] = Append(@, turn)]
    /\ UNCHANGED <<pinned, observed, managerVars, harnessVars, concurrentVars, routerVars, hookVars>>

\* The manager is asked for the next speaker of one exchange.
ReplayEvaluate ==
    /\ phase = "replay"
    /\ \E e \in Exchanges :
          observed' = Evaluation(exchanges[e],
                                 select_next_agent(exchanges[e], participant_descriptions))
    /\ UNCHANGED <<exchanges, pinned, managerVars, harnessVars, concurrentVars, routerVars, hookVars>>

\* The latest evaluation is kept for comparison with later ones.
ReplayPin ==
    /\ phase = "replay"
    /\ observed.made
    /\ ~pinned.made
    /\ pinned' = observed
    /\ UNCHANGED <<exchanges, observed, managerVars, harnessVars, concurrentVars, routerVars, hookVars>>

ReplayNext == ReplayAppend \/ ReplayEvaluate \/ ReplayPin

SpecReplay == ReplayInit /\ [][ReplayNext]_vars

(***************************************************************************)
(* process_message.  One call, from its entry to its return or to the      *)
(* exception it lets through.  Each attempt invokes the orchestration,     *)
(* which runs the turn loop above on a log of its own, begun with the      *)
(* task.  What the outside can do to an attempt is drawn freely: a call    *)
(* that raises, participants that answer or do not, the timeout of         *)
(* orchestration_result.get, a teardown that raises.                       *)
(*   pc        the statement the call is at                                *)
(*   pending   what the try statement does after its finally clause:       *)
(*             "return", "raise", or "None" (fall through to the sleep)    *)
(*   events    the outcome of each attempt made so far, in order           *)
(*   attempts  runtimes started; pauses: sleeps taken                      *)
(***************************************************************************)
max_retries == 3

\* The loop test written <= instead of <.
MayRetryOnceMore(count) == count <= max_retries

\* while retry_count < self.max_retries
MayRetry(count) == count < max_retries

\* Every failure recorded as an exception, the timeout included.
RecordAsException(previous, type, message, attempt) ==
    [type |-> "exception", message |-> message, attempt |-> attempt]

\* last_exception assigned by the first failure only.
RecordFirstException(previous, type, message, attempt) ==
    IF previous.type = "None"
    THEN [type |-> type, message |-> message, attempt |-> attempt]
    ELSE previous

\* The dict assigned to last_exception; attempt tells the str(e) of one attempt from
\* that of another.
RecordException(previous, type, message, attempt) ==
    [type |-> type, message |-> message, attempt |-> attempt]

\* The teardown skipped when an exception is on its way out of the try statement.
stop_when_idle_unless_raising(after) ==
    IF after = "raise" THEN {"started"} ELSE {"stopped", "stop_raised"}

\* try: await runtime.stop_when_idle() except Exception: the runtime is stopped, or the
\* call raised and the exception was printed; whatever the try statement does after.
stop_when_idle(after) == {"stopped", "stop_raised"}

\* The exception of stop_when_idle let out of the finally clause.
AfterTeardownUncaught(outcome, after) == IF outcome = "stop_raised" THEN "raise" ELSE after

\* finally: try: await runtime.stop_when_idle() except Exception as e: print(...).  The
\* exception of the teardown is swallowed: what was pending when the finally clause
\* was entered (a return, an exception, nothing) is what happens after it.
AfterTeardown(outcome, after) == after

\* The log of the previous attempt handed on to the next one.
KeptChatHistory(previous) == IF previous = <<>> THEN <<UserTurn>> ELSE previous

\* invoke(task=task_content, runtime=runtime): the invocation has a chat history of
\* its own, which begins with the task, whatever log an earlier invocation has left.
NewChatHistory(previous) == <<UserTurn>>

\* final_response = json.loads(value.content); final_response['response']['final_answer']
ParseRaises(content) ==
    \/ LoadsRaises(content)
    \/ ResponseRaises(content)
    \/ content.response # "object"
    \/ content.final_answer = "absent"

\* final_response['response'].get('need_more_info', False)
ReadNeedMoreInfo(content) ==
    IF content.response_need_more_info = "absent" THEN PyFalse
    ELSE content.response_need_more_info

HarnessInit ==
    /\ chat_history = <<>>
    /\ participant_descriptions = created_agents
    /\ decision = NoCall
    /\ phase = "start"
    /\ requested = "None"
    /\ ReplayIdle
    /\ HookIdle
    /\ ConcurrentIdle
    /\ RouterIdle
    /\ pc \in {"process_message", "main"}
    /\ retry_count = 0
    /\ last_exception = NoException
    /\ need_more_info = PyFalse
    /\ pending = "None"
    /\ returned = NotReturned
    /\ runtime = "None"
    /\ attempts = 0
    /\ pauses = 0
    /\ events = <<>>

\* retry_count = 0; last_exception = None; need_more_info = False
EnterProcessMessage ==
    /\ pc = "process_message"
    /\ retry_count' = 0
    /\ last_exception' = NoException
    /\ need_more_info' = PyFalse
    /\ pc' = "while"
    /\ UNCHANGED <<pending, returned, runtime, attempts, pauses, events>>
    /\ UNCHANGED <<managerVars, replayVars, hookVars, concurrentVars, routerVars>>

WhileTest ==
    /\ pc = "while"
    /\ pc' = IF MayRetry(retry_count) THEN "start_runtime" ELSE "exhausted"
    /\ UNCHANGED <<retry_count, last_exception, need_more_info, pending, returned,
                   runtime, attempts, pauses, events>>
    /\ UNCHANGED <<managerVars, replayVars, hookVars, concurrentVars, routerVars>>

\* runtime = InProcessRuntime(); runtime.start(): a new runtime, started.
StartRuntime ==
    /\ pc = "start_runtime"
    /\ attempts' = attempts + 1
    /\ pending' = "None"
    /\ runtime' = "started"
    /\ phase' = "start"
    /\ requested' = "None"
    /\ pc' = "invoke"
    /\ UNCHANGED <<retry_count, last_exception, need_more_info, returned, pauses, events>>
    /\ UNCHANGED <<chat_history, participant_descriptions, decision, replayVars, hookVars, concurrentVars, routerVars>>

\* await self.orchestration.invoke(task=task_content, runtime=runtime): inside the
\* outer try, which has a finally clause and no except clause.
Invoke ==
    /\ pc = "invoke"
    /\ \/ /\ chat_history' = NewChatHistory(chat_history)
          /\ phase' = Determine(chat_history', participant_descriptions).phase
          /\ requested' = Determine(chat_history', participant_descriptions).requested
          /\ pc' = "get"
          /\ UNCHANGED <<pending, events>>
       \/ /\ pending' = "raise"
          /\ events' = Append(events, "invoke_raised")
          /\ pc' = "finally"
          /\ UNCHANGED <<chat_history, phase, requested>>
    /\ UNCHANGED <<retry_count, last_exception, need_more_info, returned, runtime,
                   attempts, pauses>>
    /\ UNCHANGED <<participant_descriptions, decision, replayVars, hookVars, concurrentVars, routerVars>>

\* The participant asked by the turn loop answers.  It can do so while get
\* waits and also after get gave up: nothing in process_message cancels the
\* call in flight, and stop_when_idle lets the runtime finish its work.
AttemptAgentResponds ==
    /\ pc \in {"get", "finally"}
    /\ phase = "awaiting"
    /\ \E content \in ContentsOf(requested) :
           chat_history' = Append(chat_history, Turn("assistant", requested, content))
    /\ phase' = Determine(chat_history', participant_descriptions).phase
    /\ requested' = Determine(chat_history', participant_descriptions).requested
    /\ UNCHANGED <<participant_descriptions, decision, replayVars, hookVars, concurrentVars, routerVars, harnessVars>>

(***************************************************************************)
(* The end of an attempt of process_message.                               *)
(***************************************************************************)
\* value = await orchestration_result.get(timeout=120): the exchange has terminated and
\* the result is what filter_results made of the log.
GetReturns ==
    /\ pc = "get"
    /\ phase = "terminated"
    /\ decision' = Returned("filter_results", FALSE, NoResult, filter_results(chat_history))
    /\ pc' = "parse"
    /\ UNCHANGED <<chat_history, participant_descriptions, phase, requested>>
    /\ UNCHANGED <<retry_count, last_exception, need_more_info, pending, returned,
                   runtime, attempts, pauses, events>>
    /\ UNCHANGED <<replayVars, hookVars, concurrentVars, routerVars>>

\* except asyncio.TimeoutError: no result within the timeout.
GetTimesOut ==
    /\ pc = "get"
    /\ phase # "terminated"
    /\ last_exception' = RecordException(last_exception, "timeout",
                                         "Orchestration timed out", attempts)
    /\ retry_count' = retry_count + 1
    /\ events' = Append(events, "timeout")
    /\ pc' = "finally"
    /\ UNCHANGED <<need_more_info, pending, returned, runtime, attempts, pauses>>
    /\ UNCHANGED <<managerVars, replayVars, hookVars, concurrentVars, routerVars>>

\* except Exception as e: get raises something else than the timeout.
GetRaisesException ==
    /\ pc = "get"
    /\ phase # "terminated"
    /\ last_exception' = RecordException(last_exception, "exception", "raised by get", attempts)
    /\ retry_count' = retry_count + 1
    /\ events' = Append(events, "exception")
    /\ pc' = "finally"
    /\ UNCHANGED <<need_more_info, pending, returned, runtime, attempts, pauses>>
    /\ UNCHANGED <<managerVars, replayVars, hookVars, concurrentVars, routerVars>>

\* Lines 446-451, and the except Exception clause when one of them raises.
ParseResult ==
    /\ pc = "parse"
    /\ IF ParseRaises(decision.message)
       THEN /\ last_exception' = RecordException(last_exception, "exception",
                                                 "raised by parsing", attempts)
            /\ retry_count' = retry_count + 1
            /\ events' = Append(events, "exception")
            /\ UNCHANGED <<need_more_info, pending, returned>>
       ELSE /\ need_more_info' = ReadNeedMoreInfo(decision.message)
            /\ pending' = "return"
            /\ returned' = [kind |-> "none", answer |-> decision.message.final_answer,
                            error |-> NoException, need_more_info |-> need_more_info']
            /\ events' = Append(events, "success")
            /\ UNCHANGED <<last_exception, retry_count>>
    /\ pc' = "finally"
    /\ UNCHANGED <<runtime, attempts, pauses>>
    /\ UNCHANGED <<managerVars, replayVars, hookVars, concurrentVars, routerVars>>

\* finally: await runtime.stop_when_idle(), whose exception is caught and printed;
\* then the pending return or exception, or the statement after the try.
Finally ==
    /\ pc = "finally"
    /\ runtime' \in stop_when_idle(pending)
    /\ runtime' = "stopped" => phase # "awaiting"
    /\ IF AfterTeardown(runtime', pending) = "return"
       THEN pc' = "returned" /\ returned' = [returned EXCEPT !.kind = "answer"]
       ELSE IF AfterTeardown(runtime', pending) = "raise"
       THEN pc' = "raised" /\ returned' = [NotReturned EXCEPT !.kind = "raised"]
       ELSE pc' = "sleep" /\ UNCHANGED returned
    /\ UNCHANGED <<retry_count, last_exception, need_more_info, pending, attempts,
                   pauses, events>>
    /\ UNCHANGED <<managerVars, replayVars, hookVars, concurrentVars, routerVars>>

\* await asyncio.sleep(1)
Sleep ==
    /\ pc = "sleep"
    /\ pauses' = pauses + 1
    /\ pc' = "while"
    /\ UNCHANGED <<retry_count, last_exception, need_more_info, pending, returned,
                   runtime, attempts, events>>
    /\ UNCHANGED <<managerVars, replayVars, hookVars, concurrentVars, routerVars>>

\* return {"error": f"Orchestration failed: {last_exception}"}, need_more_info
ReturnError ==
    /\ pc = "exhausted"
    /\ returned' = [kind |-> "error", answer |-> "None", error |-> last_exception,
                    need_more_info |-> need_more_info]
    /\ pc' = "returned"
    /\ UNCHANGED <<retry_count, last_exception, need_more_info, pending, runtime,
                   attempts, pauses, events>>
    /\ UNCHANGED <<managerVars, replayVars, hookVars, concurrentVars, routerVars>>

ProcessMessage ==
    \/ EnterProcessMessage
    \/ WhileTest
    \/ StartRuntime
    \/ Invoke
    \/ AttemptAgentResponds
    \/ GetReturns
    \/ GetTimesOut
    \/ GetRaisesException
    \/ ParseResult
    \/ Finally
    \/ Sleep
    \/ ReturnError

(***************************************************************************)
(* The retry loop of main in groupchat_client.py, which runs the turn loop *)
(* through the CustomGroupChatManager of that file.                        *)
(***************************************************************************)
\* for attempt in range(1, 4)
main_attempts == 3

ClientDetermine(history, descriptions) ==
    IF gc_should_terminate(history) THEN [phase |-> "terminated", requested |-> "None"]
    ELSE LET next_agent == gc_select_next_agent(history, descriptions) IN
         IF next_agent.result = "None" THEN [phase |-> "stalled", requested |-> "None"]
         ELSE [phase |-> "awaiting", requested |-> next_agent.result]

MainFor ==
    /\ pc \in {"main", "main_for"}
    /\ IF attempts < main_attempts
       THEN pc' = "main_start_runtime" /\ UNCHANGED returned
       ELSE pc' = "main_done" /\ returned' = [NotReturned EXCEPT !.kind = "done"]
    /\ UNCHANGED <<retry_count, last_exception, need_more_info, pending, runtime,
                   attempts, pauses, events>>
    /\ UNCHANGED <<managerVars, replayVars, hookVars, concurrentVars, routerVars>>

\* runtime = InProcessRuntime(ignore_unhandled_exceptions=False); runtime.start()
MainStartRuntime ==
    /\ pc = "main_start_runtime"
    /\ attempts' = attempts + 1
    /\ pending' = "None"
    /\ runtime' = "started"
    /\ phase' = "start"
    /\ requested' = "None"
    /\ pc' = "main_invoke"
    /\ UNCHANGED <<retry_count, last_exception, need_more_info, returned, pauses, events>>
    /\ UNCHANGED <<chat_history, participant_descriptions, decision, replayVars, hookVars, concurrentVars, routerVars>>

\* result = await orchestration.invoke(...): inside the try, whose except Exception
\* clause catches its failure.
MainInvoke ==
    /\ pc = "main_invoke"
    /\ \/ /\ chat_history' = NewChatHistory(chat_history)
          /\ phase' = ClientDetermine(chat_history', participant_descriptions).phase
          /\ requested' = ClientDetermine(chat_history', participant_descriptions).requested
          /\ pc' = "main_get"
          /\ UNCHANGED events
       \/ /\ events' = Append(events, "invoke_raised")
          /\ pc' = "main_finally"
          /\ UNCHANGED <<chat_history, phase, requested>>
    /\ UNCHANGED <<retry_count, last_exception, need_more_info, pending, returned,
                   runtime, attempts, pauses>>
    /\ UNCHANGED <<participant_descriptions, decision, replayVars, hookVars, concurrentVars, routerVars>>

MainAgentResponds ==
    /\ pc \in {"main_get", "main_finally"}
    /\ phase = "awaiting"
    /\ \E content \in ContentsOf(requested) :
           chat_history' = Append(chat_history, Turn("assistant", requested, content))
    /\ phase' = ClientDetermine(chat_history', participant_descriptions).phase
    /\ requested' = ClientDetermine(chat_history', participant_descriptions).requested
    /\ UNCHANGED <<participant_descriptions, decision, replayVars, hookVars, concurrentVars, routerVars, harnessVars>>

\* value = await result.get(timeout=60); print; break
MainGetReturns ==
    /\ pc = "main_get"
    /\ phase = "terminated"
    /\ decision' = Returned("filter_results", FALSE, NoResult, filter_results(chat_history))
    /\ pending' = "break"
    /\ events' = Append(events, "success")
    /\ pc' = "main_finally"
    /\ UNCHANGED <<chat_history, participant_descriptions, phase, requested>>
    /\ UNCHANGED <<retry_count, last_exception, need_more_info, returned, runtime,
                   attempts, pauses>>
    /\ UNCHANGED <<replayVars, hookVars, concurrentVars, routerVars>>

\* except Exception as e: the timeout of get and every other exception alike.
MainGetFails ==
    /\ pc = "main_get"
    /\ phase # "terminated"
    /\ \E event \in {"timeout", "exception"} : events' = Append(events, event)
    /\ pc' = "main_finally"
    /\ UNCHANGED <<retry_count, last_exception, need_more_info, pending, returned,
                   runtime, attempts, pauses>>
    /\ UNCHANGED <<managerVars, replayVars, hookVars, concurrentVars, routerVars>>

MainFinally ==
    /\ pc = "main_finally"
    /\ runtime' \in stop_when_idle(pending)
    /\ runtime' = "stopped" => phase # "awaiting"
    /\ IF AfterTeardown(runtime', pending) = "break"
       THEN pc' = "main_done" /\ returned' = [NotReturned EXCEPT !.kind = "done"]
       ELSE pc' = "main_sleep" /\ UNCHANGED returned
    /\ UNCHANGED <<retry_count, last_exception, need_more_info, pending, attempts,
                   pauses, events>>
    /\ UNCHANGED <<managerVars, replayVars, hookVars, concurrentVars, routerVars>>

\* await asyncio.sleep(2)
MainSleep ==
    /\ pc = "main_sleep"
    /\ pauses' = pauses + 1
    /\ pc' = "main_for"
    /\ UNCHANGED <<retry_count, last_exception, need_more_info, pending, returned,
                   runtime, attempts, events>>
    /\ UNCHANGED <<managerVars, replayVars, hookVars, concurrentVars, routerVars>>

Main ==
    \/ MainFor
    \/ MainStartRuntime
    \/ MainInvoke
    \/ MainAgentResponds
    \/ MainGetReturns
    \/ MainGetFails
    \/ MainFinally
    \/ MainSleep

HarnessNext == ProcessMessage \/ Main

SpecHarness == HarnessInit /\ [][HarnessNext]_vars

(***************************************************************************)
(* Concurrent calls of process_message, one per exchange, on the one       *)
(* SemanticKernelOrchestrator.  retry_count, last_exception and runtime    *)
(* are locals of the coroutine, the log belongs to the invocation that     *)
(* orchestration.invoke starts; self.orchestration and its manager are     *)
(* shared and only read.  The steps of the calls interleave at the awaits. *)
(* The participants answer with one well-formed payload each, or with text *)
(* that is not JSON.                                                       *)
(***************************************************************************)
ConcurrentContentsOf(name) ==
    IF name = "TranslationAgent" THEN {TranslatorInbound, TranslatorOutbound("False")}
    ELSE IF name = "TriageAgent" THEN {CluResult(<<Above(confidence_threshold)>>)}
    ELSE IF name = "Lumi" THEN {LumiPayload("SciencesAgent", "list")}
    ELSE IF name \in SageAgents THEN {SagePayload("False"), NotJson}
    ELSE {}

\* The counter and the failure record kept on the orchestrator, one for all calls.
StoreLocalsOnOrchestrator(state, e, locals) ==
    [d \in DOMAIN state |->
        IF d = e THEN locals
        ELSE [state[d] EXCEPT !.retry_count = locals.retry_count,
                              !.last_exception = locals.last_exception]]

\* An assignment to the locals of the call that serves exchange e.
StoreLocals(state, e, locals) == [state EXCEPT ![e] = locals]

ConcurrentInit ==
    /\ chat_history = <<>>
    /\ participant_descriptions = created_agents
    /\ decision = NoCall
    /\ phase = "concurrent"
    /\ requested = "None"
    /\ ReplayIdle
    /\ HookIdle
    /\ RouterIdle
    /\ HarnessIdle
    /\ calls = [e \in Exchanges |-> [CallIdle EXCEPT !.pc = "process_message"]]

ConcurrentEnter(e) ==
    /\ calls[e].pc = "process_message"
    /\ calls' = StoreLocals(calls, e,
                    [calls[e] EXCEPT !.retry_count = 0, !.last_exception = NoException,
                                     !.pc = "while"])

ConcurrentExhausted(e) ==
    /\ calls[e].pc = "while"
    /\ ~MayRetry(calls[e].retry_count)
    /\ calls' = StoreLocals(calls, e, [calls[e] EXCEPT !.pc = "returned_error"])

\* Lines 432-439: a new runtime, started, and the invocation of the orchestration.
ConcurrentStartAttempt(e) ==
    /\ calls[e].pc = "while"
    /\ MayRetry(calls[e].retry_count)
    /\ \/ LET history == NewChatHistory(calls[e].chat_history)
              next == Determine(history, participant_descriptions)
          IN  calls' = StoreLocals(calls, e,
                           [calls[e] EXCEPT !.runtime = "started", !.attempts = @ + 1,
                                            !.chat_history = history,
                                            !.phase = next.phase,
                                            !.requested = next.requested,
                                            !.pc = "get"])
       \/ calls' = StoreLocals(calls, e,
                       [calls[e] EXCEPT !.runtime = "started", !.attempts = @ + 1,
                                        !.phase = "start", !.requested = "None",
                                        !.pc = "finally_raise"])

ConcurrentAgentResponds(e) ==
    /\ calls[e].pc \in {"get", "finally_failed"}
    /\ calls[e].phase = "awaiting"
    /\ \E content \in ConcurrentContentsOf(calls[e].requested) :
          LET history == Append(calls[e].chat_history,
                                Turn("assistant", calls[e].requested, content))
              next == Determine(history, participant_descriptions)
          IN  calls' = StoreLocals(calls, e,
                           [calls[e] EXCEPT !.chat_history = history,
                                            !.phase = next.phase,
                                            !.requested = next.requested])

\* Lines 443-451: the result arrived and has the two fields.
ConcurrentSucceeds(e) ==
    /\ calls[e].pc = "get"
    /\ calls[e].phase = "terminated"
    /\ ~ParseRaises(filter_results(calls[e].chat_history))
    /\ calls' = StoreLocals(calls, e, [calls[e] EXCEPT !.pc = "finally_return"])

\* Lines 453-461: the timeout, or an exception of get or of the parsing.
ConcurrentFails(e) ==
    /\ calls[e].pc = "get"
    /\ \E type \in {"timeout", "exception"} :
          /\ calls[e].phase = "terminated" =>
                 /\ type = "exception"
                 /\ ParseRaises(filter_results(calls[e].chat_history))
          /\ calls' = StoreLocals(calls, e,
                          [calls[e] EXCEPT
                              !.last_exception = RecordException(@, type, "raised in the attempt",
                                                                 calls[e].attempts),
                              !.retry_count = @ + 1,
                              !.failures = @ + 1,
                              !.pc = "finally_failed"])

\* Lines 463-469: the runtime of the attempt is stopped, then the return, the
\* exception on its way out, or the pause before the next attempt.
ConcurrentFinally(e) ==
    /\ calls[e].pc \in {"finally_return", "finally_raise", "finally_failed"}
    /\ \E outcome \in stop_when_idle(calls[e].pc) :
          /\ outcome = "stopped" => calls[e].phase # "awaiting"
          /\ calls' = StoreLocals(calls, e,
                          [calls[e] EXCEPT
                              !.runtime = outcome,
                              !.pc = IF calls[e].pc = "finally_return" THEN "returned"
                                     ELSE IF calls[e].pc = "finally_raise" THEN "raised"
                                     ELSE "while"])

ConcurrentStep(e) ==
    \/ ConcurrentEnter(e)
    \/ ConcurrentExhausted(e)
    \/ ConcurrentStartAttempt(e)
    \/ ConcurrentAgentResponds(e)
    \/ ConcurrentSucceeds(e)
    \/ ConcurrentFails(e)
    \/ ConcurrentFinally(e)

ConcurrentNext ==
    /\ \E e \in Exchanges : ConcurrentStep(e)
    /\ UNCHANGED <<managerVars, replayVars, hookVars, harnessVars, routerVars>>

SpecConcurrent == ConcurrentInit /\ [][ConcurrentNext]_vars

(***************************************************************************)
(* parse_response of router/clu_router.py, applied to a response of the    *)
(* CLU runtime.  A response is modelled by the keys parse_response reads:  *)
(* result.prediction.topIntent, result.prediction.intents (the service     *)
(* lists the intents of the project by decreasing confidenceScore, the top *)
(* intent first) and result.prediction.entities.  Scores are scaled by     *)
(* 100.  The intent named "None" is the project's intent for an utterance  *)
(* that matches nothing; in the error field "None" is Python's None.       *)
(***************************************************************************)
IntentNames == {"None", "RecordabilityQuestion", "IndustryRiskProfile"}

Scores == {0, 49, 50, 51, 69, 70, 71, 89, 90, 91, 100}

Thresholds == {50, CLU_CONFIDENCE_THRESHOLD, 90}

EntityLists == {<<>>, <<"NAICSCode">>, <<"NAICSCode", "InjuryType">>}

Intent(category, score) == [category |-> category, confidenceScore |-> score]

Responses ==
    {[topIntent |-> top, intents |-> <<Intent(top, score)>>, entities |-> listed] :
        top \in IntentNames, score \in Scores, listed \in EntityLists}
    \cup
    {[topIntent |-> pair[1],
      intents |-> <<Intent(pair[1], score), Intent(pair[2], 0)>>,
      entities |-> listed] :
        pair \in {p \in IntentNames \X IntentNames : p[1] # p[2]}, score \in Scores,
        listed \in EntityLists}

\* parse_response flagging a confidence equal to the threshold.
parse_response_at_threshold_flagged(response, confidence_threshold_) ==
    LET confidence == response.intents[1].confidenceScore
        intent == response.topIntent
        low == IF confidence <= confidence_threshold_
               THEN "CLU confidence threshold not met" ELSE "None"
        error == IF intent = "None" THEN "No intent recognized" ELSE low
    IN  [kind |-> "clu_result", error |-> error, intent |-> intent,
         entities |-> response.entities, confidence |-> confidence,
         api_response |-> response]

\* The two if statements run one after the other: the second assignment wins.
parse_response(response, confidence_threshold_) ==
    LET confidence == response.intents[1].confidenceScore
        intent == response.topIntent
        low == IF confidence < confidence_threshold_
               THEN "CLU confidence threshold not met" ELSE "None"
        error == IF intent = "None" THEN "No intent recognized" ELSE low
    IN  [kind |-> "clu_result", error |-> error, intent |-> intent,
         entities |-> response.entities, confidence |-> confidence,
         api_response |-> response]

RouterInit ==
    /\ chat_history = <<>>
    /\ participant_descriptions = created_agents
    /\ decision = NoCall
    /\ phase = "router"
    /\ requested = "None"
    /\ ReplayIdle
    /\ HookIdle
    /\ ConcurrentIdle
    /\ HarnessIdle
    /\ clu_threshold \in Thresholds
    /\ clu_response \in Responses
    /\ clu_result = NoCluResult

CallParseResponse ==
    /\ phase = "router"
    /\ clu_result = NoCluResult
    /\ clu_result' = parse_response(clu_response, clu_threshold)
    /\ UNCHANGED <<clu_threshold, clu_response>>
    /\ UNCHANGED <<managerVars, replayVars, hookVars, concurrentVars, harnessVars>>

RouterNext == CallParseResponse

SpecRouter == RouterInit /\ [][RouterNext]_vars

(***************************************************************************)
(* One call of process_message under fairness.  The steps of the function  *)
(* itself are taken when they can be: the loop test, the start of the      *)
(* runtime, the invocation, the arrival of the result or the firing of the *)
(* timeout of get, the parsing, the pause, the return.  stop_when_idle     *)
(* returns when the runtime is idle, that is once no participant call is   *)
(* in flight.  Nothing is assumed of the participants, which answer or     *)
(* hang, nor of stop_when_idle raising instead of waiting.  The            *)
(* participants answer with the payloads of ConcurrentContentsOf.          *)
(***************************************************************************)
ReturnsInit ==
    /\ HarnessInit
    /\ pc = "process_message"

ReturnsAgentResponds ==
    /\ pc \in {"get", "finally"}
    /\ phase = "awaiting"
    /\ \E content \in ConcurrentContentsOf(requested) :
           chat_history' = Append(chat_history, Turn("assistant", requested, content))
    /\ phase' = Determine(chat_history', participant_descriptions).phase
    /\ requested' = Determine(chat_history', participant_descriptions).requested
    /\ UNCHANGED <<participant_descriptions, decision, replayVars, hookVars, concurrentVars, routerVars, harnessVars>>

\* stop_when_idle returned: the runtime was idle and is stopped.
FinallyStopped == Finally /\ runtime' = "stopped"

ReturnsNext ==
    \/ EnterProcessMessage
    \/ WhileTest
    \/ StartRuntime
    \/ Invoke
    \/ ReturnsAgentResponds
    \/ GetReturns
    \/ GetTimesOut
    \/ GetRaisesException
    \/ ParseResult
    \/ Finally
    \/ Sleep
    \/ ReturnError

ReturnsFairness ==
    /\ WF_vars(EnterProcessMessage)
    /\ WF_vars(WhileTest)
    /\ WF_vars(StartRuntime)
    /\ WF_vars(Invoke)
    /\ WF_vars(GetReturns)
    /\ WF_vars(GetTimesOut)
    /\ WF_vars(ParseResult)
    /\ WF_vars(FinallyStopped)
    /\ WF_vars(Sleep)
    /\ WF_vars(ReturnError)

SpecReturns == ReturnsInit /\ [][ReturnsNext]_vars /\ ReturnsFairness

(***************************************************************************)
(* The function hooks of clu_hooks.py that ask for more information:       *)
(* RecordabilityQuestion (its second definition, which replaces the first  *)
(* when the module is loaded) and IndustryRiskProfile.  An entity is a     *)
(* dict with a text and a category (the format of the CLU runtime) or a    *)
(* name (the format of the triage agent, read when ROUTER_TYPE is          *)
(* TRIAGE_AGENT); a key the dict does not have is "absent".  The text of   *)
(* an entity is a piece of the utterance and is not empty.  http_calls     *)
(* lists the requests sent; the service answers or the request raises.     *)
(***************************************************************************)
MaxEntities == 2

CluEntity(category, text) == [category |-> category, name |-> "absent", text |-> text]

TriageEntity(name, text) == [category |-> "absent", name |-> name, text |-> text]

EntityTexts ==
    {<<"InjuryType", "laceration">>, <<"TreatmentType", "stitches">>,
     <<"NAICSCode", "238220">>, <<"NAICSCode", "236220">>, <<"BodyPart", "hand">>}

CluEntities == {CluEntity(e[1], e[2]) : e \in EntityTexts}

TriageEntities == {TriageEntity(e[1], e[2]) : e \in EntityTexts}

ListsOf(set) == UNION {[1..n -> set] : n \in 0..MaxEntities}

RouterTypes == {"CLU", "TRIAGE_AGENT"}

\* if not value: None and the empty string are false.
Truthy(value) == value \notin {"None", ""}

FirstOf(indexes) == CHOOSE i \in indexes : \A j \in indexes : i <= j

\* get_entity matching the category only, whatever ROUTER_TYPE is.
get_entity_by_category(list, entity_name, router) ==
    LET matching == {i \in 1..Len(list) : list[i].category = entity_name}
    IN  IF matching = {} THEN "None" ELSE list[FirstOf(matching)].text

\* The text of the first entity that matches, or None.
get_entity(list, entity_name, router) ==
    LET triage_agent == router = "TRIAGE_AGENT"
        matching == {i \in 1..Len(list) :
                        \/ triage_agent /\ list[i].name = entity_name
                        \/ list[i].category = entity_name}
    IN  IF matching = {} THEN "None" ELSE list[FirstOf(matching)].text

get_injury_type(list, router) == get_entity(list, "InjuryType", router)

get_treatment_type(list, router) == get_entity(list, "TreatmentType", router)

get_naics_code(list, router) == get_entity(list, "NAICSCode", router)

\* The request for more information made as soon as one of the two is missing.
RecordabilityNeedsBoth(injury_type, treatment_type) ==
    ~Truthy(injury_type) \/ ~Truthy(treatment_type)

\* if not injury_type and not treatment_type
RecordabilityNeedsMoreInfo(injury_type, treatment_type) ==
    ~Truthy(injury_type) /\ ~Truthy(treatment_type)

HookInit ==
    /\ chat_history = <<>>
    /\ participant_descriptions = created_agents
    /\ decision = NoCall
    /\ phase = "hook"
    /\ requested = "None"
    /\ ReplayIdle
    /\ ConcurrentIdle
    /\ RouterIdle
    /\ HarnessIdle
    /\ router_type \in RouterTypes
    /\ entities \in IF router_type = "CLU" THEN ListsOf(CluEntities)
                    ELSE ListsOf(CluEntities \cup TriageEntities)
    /\ hook_result = "None"
    /\ http_calls = <<>>

CallRecordabilityQuestion ==
    /\ phase = "hook"
    /\ hook_result = "None"
    /\ LET injury_type == get_injury_type(entities, router_type)
           treatment_type == get_treatment_type(entities, router_type)
       IN  IF RecordabilityNeedsMoreInfo(injury_type, treatment_type)
           THEN /\ hook_result' = "To evaluate recordability criteria, I need more information about the incident."
                /\ UNCHANGED http_calls
           ELSE /\ http_calls' = Append(http_calls,
                                        [method |-> "POST", service |-> "RECORDABILITY_URL",
                                         path |-> "/evaluate", injury_type |-> injury_type,
                                         treatment |-> treatment_type, code |-> "None"])
                /\ hook_result' \in {"**Information Provided:**",
                                     "I encountered an error retrieving regulatory criteria."}
    /\ UNCHANGED <<router_type, entities>>
    /\ UNCHANGED <<managerVars, replayVars, concurrentVars, routerVars, harnessVars>>

CallIndustryRiskProfile ==
    /\ phase = "hook"
    /\ hook_result = "None"
    /\ LET naics_code == get_naics_code(entities, router_type)
       IN  IF ~Truthy(naics_code)
           THEN /\ hook_result' = "To provide industry risk data, I need your NAICS code."
                /\ UNCHANGED http_calls
           ELSE /\ http_calls' = Append(http_calls,
                                        [method |-> "GET", service |-> "ANALYTICS_URL",
                                         path |-> "/risk-profile/", injury_type |-> "None",
                                         treatment |-> "None", code |-> naics_code])
                /\ hook_result' \in {"**Industry Risk Profile for NAICS",
                                     "I couldn't retrieve data for NAICS"}
    /\ UNCHANGED <<router_type, entities>>
    /\ UNCHANGED <<managerVars, replayVars, concurrentVars, routerVars, harnessVars>>

HookNext == CallRecordabilityQuestion \/ CallIndustryRiskProfile

SpecHooks == HookInit /\ [][HookNext]_vars

(***************************************************************************)
(* Vocabulary of the properties.                                           *)
(***************************************************************************)
IsTranslatorTurn(turn) == turn.role = "assistant" /\ turn.name = "TranslationAgent"

IsRouterTurn(turn) == turn.role = "assistant" /\ turn.name = "TriageAgent"

IsDispatcherTurn(turn) == turn.role = "assistant" /\ turn.name = "Lumi"

IsResponderTurn(turn) == turn.role = "assistant" /\ turn.name \in SageAgents

\* The payload is a FAQ result that has a top answer.
IsCqaResult(content) == content.json = "object" /\ content.type = "cqa_result"

TopAnswerAtThreshold(content) ==
    /\ content.response = "object"
    /\ Len(content.answers) >= 1
    /\ content.answers[1] >= cqa_confidence

\* A Router turn that answers directly from the FAQ.
IsDirectFaqAnswer(turn) ==
    IsRouterTurn(turn) /\ IsCqaResult(turn.content) /\ TopAnswerAtThreshold(turn.content)

\* The latest turn is a Translator turn that is not the first one of the exchange.
IsFinalTranslation(history) ==
    /\ Len(history) >= 2
    /\ IsTranslatorTurn(Last(history))
    /\ \E i \in 1..(Len(history) - 1) : IsTranslatorTurn(history[i])
    /\ \/ IsResponderTurn(history[Len(history) - 1])
       \/ IsDirectFaqAnswer(history[Len(history) - 1])

\* The turns after the latest user turn.
SinceUserTurn(history) ==
    LET users == {i \in 1..Len(history) : history[i].role = "user"}
        from == IF users = {} THEN 0 ELSE CHOOSE i \in users : \A j \in users : j <= i
    IN  SubSeq(history, from + 1, Len(history))

\* Translator, Router, Dispatcher, Domain Responder, Translator; or the FAQ short-circuit.
IsCompletedCycle(turns) ==
    \/ /\ Len(turns) = 5
       /\ IsTranslatorTurn(turns[1]) /\ IsRouterTurn(turns[2]) /\ IsDispatcherTurn(turns[3])
       /\ IsResponderTurn(turns[4]) /\ IsTranslatorTurn(turns[5])
    \/ /\ Len(turns) = 3
       /\ IsTranslatorTurn(turns[1]) /\ IsDirectFaqAnswer(turns[2]) /\ IsTranslatorTurn(turns[3])

FinalBranchTaken(next_agent) ==
    next_agent.decided /\ next_agent.reason = "Final translation complete."

(***************************************************************************)
(* C1.  should_terminate is true exactly when the latest turn is a         *)
(* Translator turn that is not the first Translator turn of the exchange,  *)
(* on logs of every length and with any number of user turns.              *)
(* Refuted: the code tests the length of the log instead.                  *)
(***************************************************************************)
C1_TerminatesIffFinalTranslation ==
    decision.call = "should_terminate" =>
        (decision.bool <=> IsFinalTranslation(chat_history))

(***************************************************************************)
(* C2.  In a run of the turn loop the exchange is classified terminal      *)
(* (should_terminate true, or the final-translation branch of              *)
(* select_next_agent) only on a log that holds, after its latest user      *)
(* turn, a completed cycle or the FAQ short-circuit.                       *)
(***************************************************************************)
C2_TerminalOnlyAfterCycle ==
    (\/ phase = "terminated"
     \/ should_terminate(chat_history)
     \/ FinalBranchTaken(select_next_agent(chat_history, participant_descriptions)))
        => IsCompletedCycle(SinceUserTurn(chat_history))

C2_Witness ==
    /\ phase = "terminated"
    /\ Len(chat_history) = 6
    /\ IsResponderTurn(chat_history[5])

(***************************************************************************)
(* C3.  Every log in which a Domain Responder turn is immediately followed *)
(* by a Translator turn is classified terminal by should_terminate and by  *)
(* select_next_agent.  Refuted on logs of at most three turns.             *)
(***************************************************************************)
C3_ResponderThenTranslatorTerminal ==
    (/\ decision.call \in {"should_terminate", "select_next_agent"}
     /\ Len(chat_history) >= 2
     /\ IsResponderTurn(chat_history[Len(chat_history) - 1])
     /\ IsTranslatorTurn(Last(chat_history)))
        => /\ decision.call = "should_terminate" => decision.bool
           /\ decision.call = "select_next_agent" =>
                  decision.next.decided /\ decision.next.result = "None"

(***************************************************************************)
(* C4.  should_terminate and select_next_agent agree on every log:         *)
(* should_terminate is true exactly when select_next_agent takes its       *)
(* final-translation branch, which names no next speaker; a Translator     *)
(* turn routed on to the Router is not terminal.                           *)
(***************************************************************************)
C4_TerminationAgreesWithSelection ==
    decision.call = "select_next_agent" =>
        /\ should_terminate(chat_history) <=> FinalBranchTaken(decision.next)
        /\ should_terminate(chat_history) => decision.next.result = "None"
        /\ decision.next.result = "TriageAgent" => ~should_terminate(chat_history)

C4_Witness ==
    /\ decision.call = "select_next_agent"
    /\ FinalBranchTaken(decision.next)
    /\ should_terminate(chat_history)

(***************************************************************************)
(* C5.  When should_request_user_input is true for the latest turn the     *)
(* turn loop suspends: no participant is selected and the exchange is not  *)
(* terminated.  Refuted: the loop goes on to the Translator.               *)
(***************************************************************************)
C5_ClarificationSuspends ==
    should_request_user_input(chat_history) => phase \notin {"awaiting", "terminated"}

(***************************************************************************)
(* C6.  should_request_user_input is true exactly when the latest payload  *)
(* declares need_more_info true, at the top level (Domain Responder shape) *)
(* or under response (Translator outbound shape).  Refuted: the code reads *)
(* the top level only.                                                     *)
(***************************************************************************)
DeclaresNeedMoreInfo(history) ==
    /\ Len(history) > 0
    /\ Last(history).content.json = "object"
    /\ \/ Last(history).content.need_more_info = "True"
       \/ /\ Last(history).content.response = "object"
          /\ Last(history).content.response_need_more_info = "True"

C6_UserInputIffFlagDeclared ==
    decision.call = "should_request_user_input" =>
        (decision.bool <=> DeclaresNeedMoreInfo(chat_history))

(***************************************************************************)
(* C7.  A Translator, Router, Dispatcher or Domain Responder turn whose    *)
(* payload does not parse into the speaker's shape makes select_next_agent *)
(* return a decision with no next speaker and a failure reason.  Refuted:  *)
(* a Router payload of another type gets no decision at all.               *)
(***************************************************************************)
IsMalformed(turn) ==
    \/ turn.content.json # "object"
    \/ IsTranslatorTurn(turn) /\ turn.content.response = "absent"
    \/ IsRouterTurn(turn) /\ turn.content.type \notin {"cqa_result", "clu_result"}
    \/ IsRouterTurn(turn) /\ turn.content.type = "cqa_result" /\ TopAnswerRaises(turn.content)
    \/ IsRouterTurn(turn) /\ turn.content.type = "clu_result" /\ TopIntentRaises(turn.content)

FailureReasons ==
    {"Error routing to TriageAgent", "Error processing TriageAgent message.",
     "Error processing Lumi message.", "Error processing SAGE agent message."}

C7_MalformedPayloadIsRoutingFailure ==
    (/\ decision.call = "select_next_agent"
     /\ Len(chat_history) > 0
     /\ \/ IsTranslatorTurn(Last(chat_history)) \/ IsRouterTurn(Last(chat_history))
        \/ IsDispatcherTurn(Last(chat_history)) \/ IsResponderTurn(Last(chat_history))
     /\ IsMalformed(Last(chat_history)))
        => /\ decision.next.decided
           /\ decision.next.result = "None"
           /\ decision.next.reason \in FailureReasons

(***************************************************************************)
(* C8.  A Dispatcher payload whose target_agent is not a registered        *)
(* responder (an unknown name, no target_agent, a known name missing from  *)
(* the registry) is routed to GovernanceAgent, never to none.  Refuted.    *)
(***************************************************************************)
C8_UnknownTargetFallsBack ==
    (/\ decision.call = "select_next_agent"
     /\ Len(chat_history) > 0
     /\ IsDispatcherTurn(Last(chat_history))
     /\ Last(chat_history).content.json = "object"
     /\ \/ Last(chat_history).content.target_agent \notin valid_agents
        \/ Last(chat_history).content.target_agent \notin participant_descriptions)
        => decision.next.result = "GovernanceAgent"

(***************************************************************************)
(* C9.  A Dispatcher turn that names one of the four known (and            *)
(* registered) Domain Responders in target_agent is routed to exactly that *)
(* responder.  Refuted: the routing is lost when iri_domains is null.      *)
(***************************************************************************)
C9_KnownTargetIsNextSpeaker ==
    (/\ decision.call = "select_next_agent"
     /\ Len(chat_history) > 0
     /\ IsDispatcherTurn(Last(chat_history))
     /\ Last(chat_history).content.json = "object"
     /\ Last(chat_history).content.target_agent \in valid_agents
     /\ Last(chat_history).content.target_agent \in participant_descriptions)
        => decision.next.result = Last(chat_history).content.target_agent

(***************************************************************************)
(* C10.  For a Router turn of type cqa_result the next speaker is the      *)
(* Translator exactly when the confidence of the first answer is at or     *)
(* above the FAQ threshold, whatever the other answers are; stated of both *)
(* select_next_agent functions.  Refuted by the one of groupchat_client.py,*)
(* which names no next speaker for any cqa_result.                         *)
(***************************************************************************)
IsCqaTurn(history) ==
    Len(history) > 0 /\ IsRouterTurn(Last(history)) /\ IsCqaResult(Last(history).content)

C10_FaqAnswerAtThresholdToTranslator ==
    (decision.call \in {"select_next_agent", "gc_select_next_agent"} /\ IsCqaTurn(chat_history))
        => (decision.next.result = "TranslationAgent"
               <=> TopAnswerAtThreshold(Last(chat_history).content))

(***************************************************************************)
(* C11.  For a Router turn that carries a FAQ result whose top answer is   *)
(* below the FAQ threshold, or an intent result whose top intent has any   *)
(* confidence (below the CLU threshold included), select_next_agent names  *)
(* the Dispatcher, Lumi: a decision, with a speaker and no failure reason. *)
(***************************************************************************)
IsCluResult(content) == content.json = "object" /\ content.type = "clu_result"

\* The Router turn carries a FAQ result below threshold or an intent result.
IsForDispatcher(turn) ==
    /\ IsRouterTurn(turn)
    /\ \/ /\ IsCqaResult(turn.content)
          /\ ~TopAnswerRaises(turn.content)
          /\ turn.content.answers[1] < cqa_confidence
       \/ IsCluResult(turn.content) /\ ~TopIntentRaises(turn.content)

C11_LowConfidenceToDispatcher ==
    (/\ decision.call = "select_next_agent"
     /\ Len(chat_history) > 0
     /\ IsForDispatcher(Last(chat_history)))
        => /\ decision.next.decided
           /\ decision.next.result = "Lumi"
           /\ decision.next.reason \notin FailureReasons

C11_Witness ==
    /\ decision.call = "select_next_agent"
    /\ Len(chat_history) > 0
    /\ IsRouterTurn(Last(chat_history))
    /\ IsCluResult(Last(chat_history).content)
    /\ ~TopIntentRaises(Last(chat_history).content)
    /\ Last(chat_history).content.intents[1] < confidence_threshold
    /\ decision.next.result = "Lumi"

(***************************************************************************)
(* C12.  When the latest turn is the first Translator turn of the exchange *)
(* (no Translator turn since the latest user turn precedes it) and carries *)
(* a well-formed inbound payload, select_next_agent names the Router,      *)
(* TriageAgent, however many turns precede it.  Refuted: from the fourth   *)
(* position on the Translator turn is taken for the final translation.     *)
(***************************************************************************)
IsFirstTranslatorTurn(history) ==
    LET turns == SinceUserTurn(history) IN
    /\ Len(turns) > 0
    /\ IsTranslatorTurn(Last(history))
    /\ \A i \in 1..(Len(turns) - 1) : ~IsTranslatorTurn(turns[i])

C12_FirstTranslationToRouter ==
    (/\ decision.call = "select_next_agent"
     /\ IsFirstTranslatorTurn(chat_history)
     /\ Last(chat_history).content = TranslatorInbound)
        => decision.next.decided /\ decision.next.result = "TriageAgent"

(***************************************************************************)
(* C13.  On the empty log and on every log whose latest turn is a user     *)
(* turn, select_next_agent names the Translator, whatever the content of   *)
(* the user turn and the length of the log; stated of both                 *)
(* select_next_agent functions.  Refuted by the one of groupchat_client.py,*)
(* which names the Translator only on a log of exactly one turn.           *)
(***************************************************************************)
C13_UserTurnToTranslator ==
    (/\ decision.call \in {"select_next_agent", "gc_select_next_agent"}
     /\ \/ Len(chat_history) = 0
        \/ Last(chat_history).role = "user")
        => decision.next.decided /\ decision.next.result = "TranslationAgent"

(***************************************************************************)
(* C14.  When the latest turn was produced by one of the four Domain       *)
(* Responders and its payload is a JSON object, select_next_agent names    *)
(* the Translator: not a Domain Responder, the Dispatcher or the Router.   *)
(***************************************************************************)
C14_ResponderToTranslator ==
    (/\ decision.call = "select_next_agent"
     /\ Len(chat_history) > 0
     /\ IsResponderTurn(Last(chat_history))
     /\ Last(chat_history).content.json = "object")
        => /\ decision.next.decided
           /\ decision.next.result = "TranslationAgent"
           /\ decision.next.result \notin SageAgents \cup {"Lumi", "TriageAgent"}

C14_Witness ==
    /\ decision.call = "select_next_agent"
    /\ Len(chat_history) > 0
    /\ Last(chat_history).name = "ExperienceAgent"
    /\ Last(chat_history).content = SagePayload("False")
    /\ decision.next.result = "TranslationAgent"

ParticipantTurns(history) == SubSeq(history, 2, Len(history))

IsShortSequence(turns) ==
    /\ Len(turns) = 3
    /\ IsTranslatorTurn(turns[1]) /\ IsRouterTurn(turns[2]) /\ IsTranslatorTurn(turns[3])

IsLongSequence(turns) ==
    /\ Len(turns) = 5
    /\ IsTranslatorTurn(turns[1]) /\ IsRouterTurn(turns[2]) /\ IsDispatcherTurn(turns[3])
    /\ IsResponderTurn(turns[4]) /\ IsTranslatorTurn(turns[5])

C16_SpeakerSequenceOfTerminatedExchange ==
    phase = "terminated" =>
        LET turns == ParticipantTurns(chat_history) IN
        /\ chat_history[1].role = "user"
        /\ \A i \in 1..Len(turns) : turns[i].role = "assistant"
        /\ IsShortSequence(turns) \/ IsLongSequence(turns)
        /\ IsShortSequence(turns) <=> IsDirectFaqAnswer(turns[2])

\* The FAQ short-circuit taken with a top answer exactly at the threshold.
C16_Witness ==
    /\ phase = "terminated"
    /\ Len(chat_history) = 4
    /\ IsCqaResult(chat_history[3].content)
    /\ chat_history[3].content.answers[1] = cqa_confidence

(***************************************************************************)
(* C17.  When every participant that is asked answers with a payload of    *)
(* its shape, the exchange eventually is terminal or asks the user for     *)
(* more information, whatever the confidences and whatever target_agent    *)
(* the Dispatcher names (an unknown name and no name included).            *)
(***************************************************************************)
C17_ExchangeEventuallyEnds ==
    <>(phase = "terminated" \/ should_request_user_input(chat_history))

\* Terminated by way of the default responder, the Dispatcher having named an unknown one.
C17_Witness ==
    /\ phase = "terminated"
    /\ Len(chat_history) = 6
    /\ chat_history[4].content.target_agent = "UnknownAgent"
    /\ chat_history[5].name = "GovernanceAgent"
    /\ ~should_request_user_input(SubSeq(chat_history, 1, 5))

(***************************************************************************)
(* C18.  No failure inside an attempt of process_message leaves the        *)
(* function as an exception: each is caught, recorded as timeout or        *)
(* exception, and counted in retry_count.  Refuted: an exception raised by *)
(* orchestration.invoke passes the finally clause and reaches the caller.  *)
(***************************************************************************)
FailedAttempts == {i \in DOMAIN events : events[i] # "success"}

C18_EveryFailureCaughtAndCounted ==
    pc \in {"while", "exhausted", "returned", "raised"} =>
        /\ pc # "raised"
        /\ retry_count = Cardinality(FailedAttempts)
        /\ FailedAttempts # {} => last_exception.type \in {"timeout", "exception"}

(***************************************************************************)
(* C19.  At most max_retries attempts are started (three in main of        *)
(* groupchat_client.py); an attempt is started only when every attempt     *)
(* before it has ended, and ended by a timeout or an exception; no attempt *)
(* follows a successful one; and the error result is returned (main: the   *)
(* loop ends without a result) only after exactly that many failed         *)
(* attempts.                                                               *)
(***************************************************************************)
InMain ==
    pc \in {"main", "main_for", "main_start_runtime", "main_invoke", "main_get",
            "main_finally", "main_sleep", "main_done"}

Failures == {"timeout", "exception", "invoke_raised"}

C19_BoundedAttempts ==
    /\ attempts <= (IF InMain THEN main_attempts ELSE max_retries)
    /\ Len(events) <= attempts
    /\ attempts <= Len(events) + 1
    /\ \A i \in 1..(attempts - 1) : events[i] \in Failures
    /\ \A i \in DOMAIN events : events[i] = "success" => i = attempts
    /\ returned.kind = "error" =>
           /\ attempts = max_retries
           /\ Len(events) = max_retries
           /\ \A i \in DOMAIN events : events[i] \in {"timeout", "exception"}
    /\ (returned.kind = "done" /\ \A i \in DOMAIN events : events[i] # "success") =>
           attempts = main_attempts /\ Len(events) = main_attempts

\* Every attempt of process_message has failed and the error result is returned.
C19_Witness ==
    /\ pc = "returned"
    /\ returned.kind = "error"
    /\ attempts = max_retries
    /\ events = <<"timeout", "exception", "timeout">>

(***************************************************************************)
(* C20.  The error result returned when every attempt has failed carries   *)
(* the classification of the last attempt (timeout if it timed out,        *)
(* exception otherwise) and the message of that attempt, not of an earlier *)
(* one, and carries no answer text.                                        *)
(***************************************************************************)
C20_ErrorResultOfLastFailure ==
    returned.kind = "error" =>
        /\ Len(events) > 0
        /\ returned.error.type = Last(events)
        /\ returned.error.attempt = Len(events)
        /\ returned.error.message \in {"Orchestration timed out", "raised by get",
                                       "raised by parsing"}
        /\ returned.error.message = "Orchestration timed out" <=> Last(events) = "timeout"
        /\ returned.answer = "None"
        /\ returned.need_more_info = PyFalse

\* Two timeouts, then a terminal payload without final_answer.
C20_Witness ==
    /\ returned.kind = "error"
    /\ events = <<"timeout", "timeout", "exception">>
    /\ returned.error.message = "raised by parsing"

(***************************************************************************)
(* C21.  An answer returned by process_message is response.final_answer of *)
(* the terminal Translator payload, returned with the flag found at        *)
(* response.need_more_info of that payload; a payload that lacks either    *)
(* field yields no answer.  Refuted: for a missing need_more_info the      *)
(* default False is substituted and the answer is returned.                *)
(***************************************************************************)
C21_AnswerReadFromTerminalPayload ==
    returned.kind = "answer" =>
        LET payload == Last(chat_history).content IN
        /\ IsTranslatorTurn(Last(chat_history))
        /\ payload.final_answer # "absent"
        /\ payload.response_need_more_info # "absent"
        /\ returned.answer = payload.final_answer
        /\ returned.need_more_info = payload.response_need_more_info

InsideAttempt ==
    pc \in {"invoke", "get", "parse", "finally",
            "main_invoke", "main_get", "main_finally"}

BetweenAttempts ==
    pc \in {"while", "start_runtime", "sleep", "exhausted",
            "main_for", "main_start_runtime", "main_sleep"}

CallEnded == pc \in {"returned", "raised", "main_done"}

C23_RuntimeReleasedOnEveryPath ==
    /\ InsideAttempt => runtime = "started"
    /\ (BetweenAttempts \/ CallEnded) => runtime # "started"
    /\ ((BetweenAttempts \/ CallEnded) /\ attempts > 0) => runtime \in {"stopped", "stop_raised"}

\* The attempt was left by the exception of orchestration.invoke, its runtime torn down.
C23_Witness ==
    /\ pc = "raised"
    /\ events = <<"invoke_raised">>
    /\ runtime = "stopped"

(***************************************************************************)
(* C24.  An attempt of process_message whose result has not arrived when   *)
(* the timeout of orchestration_result.get fires is abandoned; its failure *)
(* is recorded with type timeout, and it takes one unit of the retry       *)
(* budget: after it retry_count equals the number of attempts made.        *)
(***************************************************************************)
C24_TimeoutRecordedAndCounted ==
    (~InMain /\ Len(events) > 0 /\ Last(events) = "timeout") =>
        /\ last_exception.type = "timeout"
        /\ last_exception.message = "Orchestration timed out"
        /\ last_exception.attempt = Len(events)
        /\ retry_count = Len(events)
        /\ attempts = Len(events) => pc \notin {"invoke", "get", "parse"}

\* A timeout after an exception: two units of the budget are used.
C24_Witness ==
    /\ pc = "sleep"
    /\ events = <<"exception", "timeout">>
    /\ retry_count = 2
    /\ last_exception.type = "timeout"

(***************************************************************************)
(* C25.  Once the timeout of orchestration_result.get has fired, the       *)
(* participants of the abandoned attempt append no further turn: from the  *)
(* firing of the timeout to the start of the next attempt the log of the   *)
(* abandoned attempt does not change.                                      *)
(***************************************************************************)
TimedOutAttempt ==
    /\ pc = "finally"
    /\ Len(events) > 0
    /\ Last(events) = "timeout"
    /\ attempts = Len(events)

C25_NoTurnAfterTimeout ==
    [][TimedOutAttempt => chat_history' = chat_history]_vars

(***************************************************************************)
(* C26.  A call of process_message that made n attempts took n - 1 backoff *)
(* pauses: one between two consecutive attempts, none before the first     *)
(* attempt and none after the last one.                                    *)
(***************************************************************************)
C26_PausesOnlyBetweenAttempts ==
    /\ (~InMain /\ attempts = 0) => pauses = 0
    /\ (~InMain /\ returned.kind # "none") => pauses = attempts - 1

(***************************************************************************)
(* C27.  The turn loop of an exchange is sequential.  At any moment at     *)
(* most one participant is asked to speak, and it is one member of the     *)
(* group; nobody is asked once the loop has ended or stalled.  The         *)
(* participant asked changes only in a step that appends one turn to the   *)
(* log, and the turn appended is the turn of the participant that was      *)
(* asked.                                                                  *)
(***************************************************************************)
TurnOfRequestedAppended ==
    /\ Len(chat_history') = Len(chat_history) + 1
    /\ SubSeq(chat_history', 1, Len(chat_history)) = chat_history
    /\ requested # "None" => Last(chat_history').name = requested

OwnState(e) ==
    /\ calls[e].retry_count = calls[e].failures
    /\ calls[e].last_exception.attempt <= calls[e].attempts
    /\ calls[e].failures = 0 => calls[e].last_exception = NoException
    /\ calls[e].failures > 0 => calls[e].last_exception.attempt > 0
    /\ calls[e].phase = "awaiting" =>
           calls[e].requested =
               select_next_agent(calls[e].chat_history, participant_descriptions).result

C28_CallsShareNoMutableState ==
    /\ [](\A e \in Exchanges : OwnState(e))
    /\ [][\A e, d \in Exchanges :
              (e # d /\ calls'[e] # calls[e]) => calls'[d] = calls[d]]_vars

\* Both calls are inside an attempt, one in its third with two failures behind it,
\* the other in its first; their logs differ.
C28_Witness ==
    /\ calls["exchange_a"].pc = "get"
    /\ calls["exchange_b"].pc = "get"
    /\ calls["exchange_a"].retry_count = 2
    /\ calls["exchange_b"].retry_count = 0
    /\ calls["exchange_a"].runtime = "started"
    /\ calls["exchange_b"].runtime = "started"
    /\ Len(calls["exchange_a"].chat_history) = 1
    /\ Len(calls["exchange_b"].chat_history) = 4

Flags == {"CLU confidence threshold not met", "No intent recognized"}

TopIntentScore(response) ==
    (CHOOSE entry \in {response.intents[i] : i \in 1..Len(response.intents)} :
         entry.category = response.topIntent).confidenceScore

C30_ParseResponseForwards ==
    clu_result # NoCluResult =>
        /\ clu_result.kind = "clu_result"
        /\ clu_result.intent = clu_response.topIntent
        /\ clu_result.entities = clu_response.entities
        /\ clu_result.confidence = TopIntentScore(clu_response)
        /\ clu_result.error = "None" <=>
               (clu_result.confidence >= clu_threshold /\ clu_result.intent # "None")
        /\ clu_result.error # "None" => clu_result.error \in Flags

\* A response whose confidence equals the threshold is forwarded without a flag.
C30_Witness ==
    /\ clu_result.kind = "clu_result"
    /\ clu_result.confidence = clu_threshold
    /\ clu_result.intent = "IndustryRiskProfile"
    /\ clu_result.error = "None"
    /\ clu_result.entities = <<"NAICSCode">>

(***************************************************************************)
(* C31.  RecordabilityQuestion called on an entity list with neither an    *)
(* InjuryType nor a TreatmentType entity returns the request for more      *)
(* information about the injury and the treatment and sends no request to  *)
(* the Recordability Engine; called on a list with at least one of the two *)
(* it sends exactly one request, which carries what the list gave.         *)
(***************************************************************************)
Mentions(list, entity_name) ==
    \E i \in 1..Len(list) : list[i].category = entity_name \/ list[i].name = entity_name

RecordabilityRequest ==
    "To evaluate recordability criteria, I need more information about the incident."

RecordabilityResults ==
    {RecordabilityRequest, "**Information Provided:**",
     "I encountered an error retrieving regulatory criteria."}

C31_RecordabilityAsksOrCallsOnce ==
    hook_result \in RecordabilityResults =>
        IF ~Mentions(entities, "InjuryType") /\ ~Mentions(entities, "TreatmentType")
        THEN /\ hook_result = RecordabilityRequest
             /\ http_calls = <<>>
        ELSE /\ hook_result # RecordabilityRequest
             /\ Len(http_calls) = 1
             /\ http_calls[1].service = "RECORDABILITY_URL"
             /\ Mentions(entities, "InjuryType") <=> http_calls[1].injury_type = "laceration"
             /\ Mentions(entities, "TreatmentType") <=> http_calls[1].treatment = "stitches"

\* The triage agent named a treatment and no injury: one request, the injury None.
C31_Witness ==
    /\ router_type = "TRIAGE_AGENT"
    /\ entities = <<TriageEntity("BodyPart", "hand"), TriageEntity("TreatmentType", "stitches")>>
    /\ hook_result = "**Information Provided:**"
    /\ Len(http_calls) = 1
    /\ http_calls[1].injury_type = "None"
    /\ http_calls[1].treatment = "stitches"

(***************************************************************************)
(* C32.  IndustryRiskProfile called on an entity list without a NAICSCode  *)
(* entity returns the request for the NAICS code and sends no request to   *)
(* the Analytics service; called on a list with a NAICSCode entity it      *)
(* sends one request, for the risk profile of the code that entity gives   *)
(* (of the first such entity when the list has several).                   *)
(***************************************************************************)
IndustryRequest == "To provide industry risk data, I need your NAICS code."

IndustryResults ==
    {IndustryRequest, "**Industry Risk Profile for NAICS", "I couldn't retrieve data for NAICS"}

FirstMention(list, entity_name) ==
    list[FirstOf({i \in 1..Len(list) :
                     list[i].category = entity_name \/ list[i].name = entity_name})]

C32_IndustryAsksOrQueriesThatCode ==
    hook_result \in IndustryResults =>
        IF ~Mentions(entities, "NAICSCode")
        THEN /\ hook_result = IndustryRequest
             /\ http_calls = <<>>
        ELSE /\ hook_result # IndustryRequest
             /\ Len(http_calls) = 1
             /\ http_calls[1].service = "ANALYTICS_URL"
             /\ http_calls[1].path = "/risk-profile/"
             /\ http_calls[1].code = FirstMention(entities, "NAICSCode").text

\* The code named by the triage agent is the code queried.
C32_Witness ==
    /\ router_type = "TRIAGE_AGENT"
    /\ entities = <<CluEntity("BodyPart", "hand"), TriageEntity("NAICSCode", "236220")>>
    /\ hook_result = "**Industry Risk Profile for NAICS"
    /\ http_calls[1].code = "236220"

(***************************************************************************)
(* C33.  Whatever the log and the payload of its latest turn are,          *)
(* select_next_agent returns a routing decision: a StringResult with a     *)
(* next speaker, a participant name or none, and a justification string.   *)
(***************************************************************************)
C33_AlwaysARoutingDecision ==
    decision.call = "select_next_agent" =>
        /\ decision.next.decided
        /\ decision.next.result \in participant_descriptions \cup {"None"}
        /\ decision.next.reason # "None"

(***************************************************************************)
(* C34.  No log that the turn loop of an exchange reaches is both terminal *)
(* and a request for clarification: should_terminate and                   *)
(* should_request_user_input are never both true of it.                    *)
(***************************************************************************)
C34_TerminalAndClarificationDisjoint ==
    ~(should_terminate(chat_history) /\ should_request_user_input(chat_history))

(***************************************************************************)
(* C35.  Whatever the log and the registry are, the next speaker that      *)
(* select_next_agent returns, in either manager, is none or a key of the   *)
(* registry the call was given.                                            *)
(***************************************************************************)
C35_NextSpeakerIsRegistered ==
    decision.call \in {"select_next_agent", "gc_select_next_agent"} =>
        decision.next.result \in participant_descriptions \cup {"None"}

\* Lumi names an agent the routing does not know, the default responder is not in
\* the registry: no next speaker.
C35_Witness ==
    /\ decision.call = "select_next_agent"
    /\ Len(chat_history) > 0
    /\ IsDispatcherTurn(Last(chat_history))
    /\ Last(chat_history).content = LumiPayload("UnknownAgent", "list")
    /\ "GovernanceAgent" \notin participant_descriptions
    /\ decision.next.decided
    /\ decision.next.result = "None"

(***************************************************************************)
(* C36.  The decision for a Dispatcher turn depends on target_agent and    *)
(* the registry only: when the latest turn is the Dispatcher's and its     *)
(* payload is a JSON object, every other JSON object with the same         *)
(* target_agent, whatever its iri_domains are (a list, absent, null),      *)
(* gets the same next speaker from the same registry.                      *)
(***************************************************************************)
IsJsonObject(content) == ~LoadsRaises(content) /\ ~GetRaises(content)

C36_DispatcherDecisionByTargetOnly ==
    (/\ decision.call = "select_next_agent"
     /\ Len(chat_history) > 0
     /\ IsDispatcherTurn(Last(chat_history))
     /\ IsJsonObject(Last(chat_history).content))
    => \A other \in {c \in LumiContents : IsJsonObject(c)} :
           other.target_agent = Last(chat_history).content.target_agent
           => route_lumi_message(Turn("assistant", "Lumi", other),
                                 participant_descriptions).result = decision.next.result

(***************************************************************************)
(* C37.  The teardown of the runtime does not change the outcome of its    *)
(* attempt in process_message, whether stop_when_idle returns or raises:   *)
(* an answer that was about to be returned is returned as it was, the      *)
(* failure record and the retry counter of a failed attempt are what they  *)
(* were before the teardown, and a failed attempt goes on to the pause.    *)
(***************************************************************************)
C37_TeardownKeepsOutcome ==
    [][(pc = "finally" /\ pc' # "finally") =>
          /\ retry_count' = retry_count
          /\ last_exception' = last_exception
          /\ need_more_info' = need_more_info
          /\ attempts' = attempts
          /\ events' = events
          /\ pending = "return" =>
                 /\ pc' = "returned"
                 /\ returned' = [returned EXCEPT !.kind = "answer"]
          /\ pending = "None" => pc' = "sleep" /\ returned' = returned
          /\ pending = "raise" => pc' = "raised"]_vars

\* The teardown raised after a successful attempt: the answer is returned.
C37_Witness ==
    /\ pc = "returned"
    /\ runtime = "stop_raised"
    /\ returned.kind = "answer"
    /\ returned.answer = "text"
    /\ retry_count = 1
    /\ events = <<"timeout", "success">>

(***************************************************************************)
(* C38.  A call of process_message does not wait forever at one of its     *)
(* steps: whatever the participants do (answer, hang, make the attempt     *)
(* time out or fail), the call comes to its end, after at most max_retries *)
(* attempts.                                                               *)
(***************************************************************************)
C38_CallEventuallyEnds ==
    /\ [](attempts <= max_retries)
    /\ <>(pc \in {"returned", "raised"})

(***************************************************************************)
(* C39.  The CustomGroupChatManager of groupchat_client.py decides as the  *)
(* CustomGroupChatManager of semantic_kernel_orchestrator.py does: on the  *)
(* same log and registry select_next_agent returns the same next speaker,  *)
(* and should_terminate and should_request_user_input the same boolean.    *)
(***************************************************************************)
C39_ManagersDecideAlike ==
    /\ decision.call = "select_next_agent" =>
           decision.next.result =
               gc_select_next_agent(chat_history, participant_descriptions).result
    /\ decision.call = "should_terminate" =>
           decision.bool = gc_should_terminate(chat_history)
    /\ decision.call = "should_request_user_input" =>
           decision.bool = gc_should_request_user_input(chat_history)

====
